---- MODULE Spec2Model ----
(***************************************************************************)
(* Model of the embd pipeline: embedding generation, the code_embeddings   *)
(* table with its upsert, and the similarity search over it.               *)
(*                                                                         *)
(* Texts are TLA+ strings, vectors are sequences of integers, timestamps   *)
(* are readings of one integer clock.  A cosine similarity is kept exact   *)
(* as the signed square of the cosine, a fraction sq/den, with 0/0 for the *)
(* NaN that pgvector returns for a zero vector.                            *)
(***************************************************************************)
EXTENDS Integers, Sequences, FiniteSets, TLC

VARIABLES store, clock, call, found, gen, stats, produced, run

vars == <<store, clock, call, found, gen, stats, produced, run>>

\* ------------------------------------------------------------------ bounds

\* config.EMBEDDING_DIMENSION, scaled down from 768 (config.py line 18): every
\* definition below is written for an arbitrary dimension >= 3.
EMBEDDING_DIMENSION == 3

\* The clock stops the model after this many store_embedding calls.
MaxClock == 4

\* Longest batch handed to store_constructs.
MaxBatch == 2

\* Largest `limit` of a search.
MaxLimit == 2

\* Most rows of a searched table.
MaxRows == 2

\* config.EMBEDDING_TOKEN_LIMIT, scaled down from 8192 (config.py line 19).
EMBEDDING_TOKEN_LIMIT == 2

\* The length below which get_embedding stops cutting the text, scaled down
\* from 100 (parser.py line 63).
TruncationFloor == 1

\* Longest content text handed to the embedding functions.
MaxText == 3

\* Longest list of items handed to generate_batch.
MaxItems == 2

\* Most files of one run of main.
MaxPlan == 3

\* Most constructs in one file or document.
MaxUnits == 2

\* Most children of one node of a syntax tree.
MaxChildren == 2

\* The longest name taken from the first line of a markdown node, scaled
\* down from 50 (parser.py line 564).
MaxNameLength == 5

\* The length below which parse_html_document skips a section, scaled down
\* from 50 (web_parser.py line 132).
MinSectionLength == 3

\* The length below which parse_html_document skips a code block, scaled
\* down from 10 (web_parser.py line 160).
MinCodeLength == 2

\* SQL NULL / Python None in a timestamp column; every clock reading is >= 0.
NULL == -1

Min(a, b) == IF a <= b THEN a ELSE b

\* ----------------------------------------------------------------- vectors

\* [0.0] * config.EMBEDDING_DIMENSION, the sentinel of a failed embedding.
default_embedding == [i \in 1..EMBEDDING_DIMENSION |-> 0]

\* Provider vectors of the right dimension: (1,1,0,..), (1,0,1,0,..), (0,0,1,0,..).
VecA == [i \in 1..EMBEDDING_DIMENSION |-> IF i \in {1, 2} THEN 1 ELSE 0]
VecB == [i \in 1..EMBEDDING_DIMENSION |-> IF i \in {1, 3} THEN 1 ELSE 0]
VecC == [i \in 1..EMBEDDING_DIMENSION |-> IF i = 3 THEN 1 ELSE 0]

\* A vector one entry short of the dimension.
VecShort == [i \in 1..(EMBEDDING_DIMENSION - 1) |-> 1]

RECURSIVE DotUpTo(_, _, _)
DotUpTo(u, v, n) == IF n = 0 THEN 0 ELSE u[n] * v[n] + DotUpTo(u, v, n - 1)

Dot(u, v) == DotUpTo(u, v, Len(u))

\* x * |x|: squaring that keeps the sign, so that order is preserved.
SignedSquare(x) == IF x >= 0 THEN x * x ELSE 0 - (x * x)

NaN == [sq |-> 0, den |-> 0]

IsNaN(s) == s.den = 0

\* 1 - cosine_distance(embedding, query): dot / sqrt(|e|^2 * |q|^2), kept as
\* the signed square dot*|dot| / (|e|^2 * |q|^2); NaN when a norm is zero.
cosine_similarity(embedding, query) ==
    IF Dot(embedding, embedding) = 0 \/ Dot(query, query) = 0
    THEN NaN
    ELSE [sq |-> SignedSquare(Dot(embedding, query)),
          den |-> Dot(embedding, embedding) * Dot(query, query)]

\* The float p/q in the same representation.
Fraction(p, q) == [sq |-> SignedSquare(p), den |-> q * q]

\* a > b as PostgreSQL orders float8: NaN equals NaN and is greater than
\* every other value.
SimGT(a, b) ==
    IF IsNaN(a) THEN ~IsNaN(b)
    ELSE IF IsNaN(b) THEN FALSE
    ELSE a.sq * b.den > b.sq * a.den

\* a <= b as Python compares the floats of the result dictionaries: every
\* comparison with NaN is false.
FloatLE(a, b) == ~IsNaN(a) /\ ~IsNaN(b) /\ a.sq * b.den <= b.sq * a.den

\* ------------------------------------------------------------- constructs

\* Two versions of the text of a construct; every field that is not part
\* of the identity differs between them.
Versions == {1, 2}

\* models.CodeConstruct with the fields an extractor fills in.
\* created_at/updated_at are the pydantic defaults, taken when the construct
\* was made (reading 0 of the clock, before the first transaction).
CodeConstruct(ident, version, embedding) ==
    [filename |-> ident.filename,
     repository |-> "repo",
     git_commit |-> IF version = 1 THEN "c0ffee" ELSE "decade",
     code |-> IF version = 1 THEN "pass" ELSE "return 1",
     construct_type |-> ident.construct_type,
     name |-> ident.name,
     description |-> IF version = 1 THEN "does nothing" ELSE "returns one",
     embedding |-> embedding,
     line_start |-> IF version = 1 THEN 1 ELSE 3,
     line_end |-> IF version = 1 THEN 2 ELSE 5,
     created_at |-> 0,
     updated_at |-> 0]

\* models.CodeConstruct(...) as the extractors call it, the texts being
\* sequences of characters.
MakeConstruct(filename, repository, git_commit, code, construct_type, name, description, line_start, line_end, embedding) ==
    [filename |-> filename, repository |-> repository, git_commit |-> git_commit,
     code |-> code, construct_type |-> construct_type, name |-> name,
     description |-> description, embedding |-> embedding,
     line_start |-> line_start, line_end |-> line_end,
     created_at |-> 0, updated_at |-> 0]

\* One element of constructs_data: a (CodeConstruct, embedding) tuple.
Pair(construct, embedding) == [construct |-> construct, embedding |-> embedding]

\* The identities of the constructs: two functions of a Python file and a
\* resource of a Terraform file.
f_fn == [filename |-> "a.py", name |-> "f", construct_type |-> "function_definition"]
g_fn == [filename |-> "a.py", name |-> "g", construct_type |-> "function_definition"]
tf_res == [filename |-> "main.tf", name |-> "aws_instance",
           construct_type |-> "terraform_resource"]

\* The pairs store_constructs is called with: one function in both versions,
\* a resource (whose construct carries the empty embedding the Terraform
\* extractor leaves in it), and a pair whose vector has the wrong dimension.
Pairs ==
    { Pair(CodeConstruct(f_fn, 1, VecA), VecA),
      Pair(CodeConstruct(f_fn, 2, VecB), VecB),
      Pair(CodeConstruct(tf_res, 2, << >>), VecB),
      Pair(CodeConstruct(tf_res, 1, << >>), VecShort) }

SeqsUpTo(S, n) == UNION { [1..k -> S] : k \in 0..n }

Batches == SeqsUpTo(Pairs, MaxBatch)

\* ------------------------------------------------------ the table and upsert

\* construct_id of store_embedding: the primary key of code_embeddings.
construct_id(construct) ==
    construct.repository \o ":" \o construct.filename \o ":"
        \o construct.name \o ":" \o construct.construct_type

\* A lookup that never finds the row.
query_first_none(rows, id) == {}

\* session.query(cls).filter_by(id=construct_id).first(): the set holding
\* the row found, or the empty set for None.
query_first(rows, id) ==
    IF \E r \in rows : r.id = id THEN {CHOOSE r \in rows : r.id = id} ELSE {}

\* The setattr loop without the test for created_at.
SetAttrs_with_created_at(instance, construct) ==
    [k \in DOMAIN instance |->
        IF k \in DOMAIN construct THEN construct[k] ELSE instance[k]]

\* The setattr loop of the update branch: every key of model_dump() other
\* than created_at that the row has is copied from the construct.
SetAttrs(instance, construct) ==
    [k \in DOMAIN instance |->
        IF k \in DOMAIN construct /\ k # "created_at"
        THEN construct[k] ELSE instance[k]]

\* The update branch: the setattr loop, then embedding and updated_at.
UpdateExisting(instance, construct, embedding, utcnow) ==
    [SetAttrs(instance, construct) EXCEPT
        !.embedding = embedding, !.updated_at = utcnow]

\* The insert branch: cls(id=..., embedding=..., **model_dump(exclude=...)).
\* created_at is the server default now(), the start of the transaction;
\* updated_at has no default and only an onupdate, so it is stored as NULL.
CreateNew(construct, embedding, txn_now) ==
    [id |-> construct_id(construct),
     filename |-> construct.filename,
     repository |-> construct.repository,
     git_commit |-> construct.git_commit,
     code |-> construct.code,
     construct_type |-> construct.construct_type,
     name |-> construct.name,
     description |-> construct.description,
     embedding |-> embedding,
     line_start |-> construct.line_start,
     line_end |-> construct.line_end,
     created_at |-> txn_now,
     updated_at |-> NULL]

\* What the backend refuses when the row is flushed: a second row with a
\* primary key already in the table, a vector that is not Vector(768).
FlushError(rows, row, inserting) ==
    \/ inserting /\ \E r \in rows : r.id = row.id
    \/ Len(row.embedding) # EMBEDDING_DIMENSION

\* CodeEmbedding.store_embedding on the rows the session sees.
store_embedding(rows, construct, embedding, txn_now, utcnow) ==
    LET first == query_first(rows, construct_id(construct)) IN
    IF first # {}
    THEN LET instance == CHOOSE r \in first : TRUE
             row == UpdateExisting(instance, construct, embedding, utcnow) IN
         [rows |-> (rows \ {instance}) \cup {row},
          error |-> FlushError(rows, row, FALSE)]
    ELSE LET row == CreateNew(construct, embedding, txn_now) IN
         [rows |-> rows \cup {row},
          error |-> FlushError(rows, row, TRUE)]

\* The for loop and the commit inside `with self.Session() as session: try:`.
\* failAt = i makes the backend raise in the i-th store_embedding call,
\* failAt = Len(batch) + 1 in session.commit(), failAt = 0 nowhere.
\* Each store_embedding call takes one tick of the clock.
RECURSIVE SessionRun(_, _, _, _, _, _)
SessionRun(rows, batch, i, txn_now, now, failAt) ==
    IF i > Len(batch)
    THEN [rows |-> rows, error |-> (failAt = i), clock |-> now]
    ELSE IF failAt = i
    THEN [rows |-> rows, error |-> TRUE, clock |-> now + 1]
    ELSE LET r == store_embedding(rows, batch[i].construct, batch[i].embedding,
                                  txn_now, now + 1) IN
         IF r.error
         THEN [rows |-> r.rows, error |-> TRUE, clock |-> now + 1]
         ELSE SessionRun(r.rows, batch, i + 1, txn_now, now + 1, failAt)

\* session.commit(): the rows of the session become the table.
commit(committed, pending) == pending

\* A rollback that leaves the flushed rows of the session in the table.
rollback_keeps_flushed(committed, pending) == pending

\* session.rollback(): the table stays as it was when the session began.
rollback(committed, pending) == committed

\* try: ... session.commit()  except Exception: session.rollback(); raise
Transaction(table, batch, now, failAt) ==
    LET s == SessionRun(table, batch, 1, now, now, failAt) IN
    [table |-> IF s.error THEN rollback(table, s.rows) ELSE commit(table, s.rows),
     raised |-> s.error,
     clock |-> s.clock]

\* DatabaseManager._store_constructs_simple
StoreConstructsSimple(table, batch, now, failAt) ==
    Transaction(table, batch, now, failAt)

\* DatabaseManager._store_constructs_with_progress: the same session and
\* transaction inside a progress bar.
StoreConstructsWithProgress(table, batch, now, failAt) ==
    Transaction(table, batch, now, failAt)

NoCall == [op |-> "none"]

NoSearch == [op |-> "none"]

\* DatabaseManager.store_constructs: one session, one transaction.
store_constructs(batch, show_progress, failAt) ==
    /\ clock + Len(batch) <= MaxClock
    /\ LET t == IF show_progress
                THEN StoreConstructsWithProgress(store, batch, clock, failAt)
                ELSE StoreConstructsSimple(store, batch, clock, failAt) IN
        /\ store' = t.table
        /\ clock' = t.clock
        /\ call' = [op |-> "store_constructs",
                    batch |-> batch,
                    failAt |-> failAt,
                    before |-> store,
                    raised |-> t.raised]
    /\ found' = NoSearch
    /\ UNCHANGED <<gen, stats, produced, run>>

StoreConstructs ==
    \E batch \in Batches, show_progress \in BOOLEAN :
        \E failAt \in 0..(Len(batch) + 1) :
            store_constructs(batch, show_progress, failAt)

\* ------------------------------------------------------------------ search

\* The orders in which a scan can deliver the rows of the table.
ScanOrders(rows) ==
    { s \in [1..Cardinality(rows) -> rows] :
        \A i, j \in 1..Cardinality(rows) : i # j => s[i] # s[j] }

\* The dictionary similar_code builds for one result row (include_code and
\* include_description at their defaults).
ResultDict(row, similarity) ==
    [id |-> row.id,
     repository |-> row.repository,
     filename |-> row.filename,
     type |-> row.construct_type,
     name |-> row.name,
     line_start |-> row.line_start,
     line_end |-> row.line_end,
     similarity |-> similarity,
     code |-> row.code,
     description |-> row.description]

\* The filter with >= in place of >.
Eligible_or_equal(similarity, min_similarity) == ~SimGT(min_similarity, similarity)

\* .filter(similarity > min_similarity)
Eligible(similarity, min_similarity) == SimGT(similarity, min_similarity)

\* The insertion of an ascending sort.
RECURSIVE InsertAsc(_, _)
InsertAsc(sorted, d) ==
    IF sorted = << >> THEN <<d>>
    ELSE IF SimGT(Head(sorted).similarity, d.similarity)
    THEN <<d>> \o sorted
    ELSE <<Head(sorted)>> \o InsertAsc(Tail(sorted), d)

\* ORDER BY similarity DESC: rows of equal similarity keep the scan order.
RECURSIVE InsertDesc(_, _)
InsertDesc(sorted, d) ==
    IF sorted = << >> THEN <<d>>
    ELSE IF SimGT(d.similarity, Head(sorted).similarity)
    THEN <<d>> \o sorted
    ELSE <<Head(sorted)>> \o InsertDesc(Tail(sorted), d)

RECURSIVE OrderByDesc(_)
OrderByDesc(dicts) ==
    IF dicts = << >> THEN << >>
    ELSE InsertDesc(OrderByDesc(SubSeq(dicts, 1, Len(dicts) - 1)),
                    dicts[Len(dicts)])

\* .limit(limit) and the Python slice [:limit]
Limit(s, limit) == SubSeq(s, 1, Min(limit, Len(s)))

\* CodeEmbedding.similar_code over the rows in scan order.
similar_code(scan, query_embedding, limit, min_similarity) ==
    LET dicts == [i \in 1..Len(scan) |->
                    ResultDict(scan[i],
                               cosine_similarity(scan[i].embedding, query_embedding))]
        IsEligible(d) == Eligible(d.similarity, min_similarity)
    IN Limit(OrderByDesc(SelectSeq(dicts, IsEligible)), limit)

\* The list comprehension of search_similar_code: `if construct_type:` skips
\* it for None and for the empty string.
FilterType(results, construct_type) ==
    LET HasType(r) == r.type = construct_type IN
    IF construct_type # "" THEN SelectSeq(results, HasType) ELSE results

\* A search that filters by type inside the ranking query, before the limit.
search_filter_in_query(scan, query_embedding, limit, min_similarity, construct_type) ==
    LET HasType(row) == construct_type = "" \/ row.construct_type = construct_type
    IN similar_code(SelectSeq(scan, HasType), query_embedding, limit, min_similarity)

\* DatabaseManager.search_similar_code
search_similar_code(scan, query_embedding, limit, min_similarity, construct_type) ==
    Limit(FilterType(similar_code(scan, query_embedding, limit, min_similarity),
                     construct_type),
          limit)

\* Query vectors: a generated one and the sentinel of a failed generation.
Queries == {VecA, default_embedding}

\* min_similarity: 0, 0.5, the default 0.7, and 0.9.
Thresholds == {Fraction(0, 1), Fraction(1, 2), Fraction(7, 10), Fraction(9, 10)}

\* The pairs the searched tables are filled with: similarity 1 (VecA), 0.5
\* (VecB) and NaN (the sentinel) against the query VecA, two rows of equal
\* similarity, two types.
SearchPairs ==
    { Pair(CodeConstruct(f_fn, 1, VecA), VecA),
      Pair(CodeConstruct(f_fn, 2, VecB), VecB),
      Pair(CodeConstruct(g_fn, 1, VecA), VecA),
      Pair(CodeConstruct(tf_res, 2, << >>), VecB),
      Pair(CodeConstruct(g_fn, 2, default_embedding), default_embedding) }

\* construct_type: absent ("" stands for None as well) or one of the types.
TypeFilters == {"", "function_definition", "terraform_resource"}

\* The arguments of a search that has been requested, with the order in
\* which the scan of the table will deliver its rows.
SearchRequests(table) ==
    [op : {"request"},
     scan : ScanOrders(table),
     query_embedding : Queries,
     limit : 1..MaxLimit,
     min_similarity : Thresholds,
     construct_type : TypeFilters]

\* A search through DatabaseManager.search_similar_code; `ranked` is what
\* CodeEmbedding.similar_code returned inside it.
SearchSimilarCode ==
    /\ found.op = "request"
    /\ found' = [op |-> "search_similar_code",
                 query_embedding |-> found.query_embedding,
                 limit |-> found.limit,
                 min_similarity |-> found.min_similarity,
                 construct_type |-> found.construct_type,
                 ranked |-> similar_code(found.scan, found.query_embedding,
                                         found.limit, found.min_similarity),
                 rows |-> search_similar_code(found.scan, found.query_embedding,
                                              found.limit, found.min_similarity,
                                              found.construct_type)]
    /\ UNCHANGED <<store, clock, call, gen, stats, produced, run>>

\* ---------------------------------------------- search and reconstruction

\* A dictionary with no keys.
EmptyDict == [k \in {} |-> NULL]

ReconstructionFields_without_type(row) ==
    [git_commit |-> row.git_commit,
     created_at |-> row.created_at,
     updated_at |-> row.updated_at,
     model_type |-> "CodeConstruct"]

\* The keys similar_code adds for for_reconstruction=True.
ReconstructionFields(row) ==
    [git_commit |-> row.git_commit,
     created_at |-> row.created_at,
     updated_at |-> row.updated_at,
     model_type |-> "CodeConstruct",
     construct_type |-> row.construct_type]

\* include_code, include_description, include_embedding, for_reconstruction
SearchFlags ==
    { [include_code |-> TRUE, include_description |-> TRUE,
       include_embedding |-> FALSE, for_reconstruction |-> FALSE],
      [include_code |-> FALSE, include_description |-> FALSE,
       include_embedding |-> FALSE, for_reconstruction |-> FALSE],
      [include_code |-> FALSE, include_description |-> FALSE,
       include_embedding |-> FALSE, for_reconstruction |-> TRUE],
      [include_code |-> TRUE, include_description |-> TRUE,
       include_embedding |-> TRUE, for_reconstruction |-> FALSE] }

\* The dictionary similar_code builds for one result row under the flags.
ResultDictWith(row, similarity, flags) ==
    [id |-> row.id,
     repository |-> row.repository,
     filename |-> row.filename,
     type |-> row.construct_type,
     name |-> row.name,
     line_start |-> row.line_start,
     line_end |-> row.line_end,
     similarity |-> similarity]
    @@ (IF flags.include_code \/ flags.for_reconstruction
        THEN [code |-> row.code] ELSE EmptyDict)
    @@ (IF flags.include_description \/ flags.for_reconstruction
        THEN [description |-> row.description] ELSE EmptyDict)
    @@ (IF flags.include_embedding \/ flags.for_reconstruction
        THEN [embedding |-> row.embedding] ELSE EmptyDict)
    @@ (IF flags.for_reconstruction THEN ReconstructionFields(row) ELSE EmptyDict)

\* CodeEmbedding.similar_code with its include_* and for_reconstruction
\* arguments, over the rows in scan order.
SimilarCodeWith(scan, query_embedding, limit, min_similarity, flags) ==
    LET ranked == [i \in 1..Len(scan) |->
                     [row |-> scan[i],
                      similarity |-> cosine_similarity(scan[i].embedding, query_embedding)]]
        IsEligible(d) == Eligible(d.similarity, min_similarity)
        results == Limit(OrderByDesc(SelectSeq(ranked, IsEligible)), limit)
    IN [i \in 1..Len(results) |->
          ResultDictWith(results[i].row, results[i].similarity, flags)]

\* required_fields of from_search_result
required_fields ==
    {"filename", "repository", "git_commit", "code", "construct_type",
     "name", "description", "line_start", "line_end"}

\* raise ValueError(...)
RaiseValueError == [exception |-> TRUE, error |-> "ValueError", value |-> << >>]

\* result.get(key, default)
DictGet(result, key, default) ==
    IF key \in DOMAIN result THEN result[key] ELSE default

\* created_at or datetime.utcnow(): the stored timestamps are datetimes or
\* None, never strings.
OrUtcnow(timestamp, utcnow) == IF timestamp = NULL THEN utcnow ELSE timestamp

\* CodeConstruct.from_search_result
from_search_result(result, utcnow) ==
    LET missing == required_fields \ DOMAIN result IN
    IF missing # {} THEN RaiseValueError
    ELSE [exception |-> FALSE, error |-> "",
          value |-> [filename |-> result.filename,
                     repository |-> result.repository,
                     git_commit |-> result.git_commit,
                     code |-> result.code,
                     construct_type |-> result.construct_type,
                     name |-> result.name,
                     description |-> result.description,
                     embedding |-> DictGet(result, "embedding", << >>),
                     line_start |-> result.line_start,
                     line_end |-> result.line_end,
                     created_at |-> OrUtcnow(DictGet(result, "created_at", NULL), utcnow),
                     updated_at |-> OrUtcnow(DictGet(result, "updated_at", NULL), utcnow)]]

\* The dictionary without one of its keys.
WithoutKey(result, key) == [k \in DOMAIN result \ {key} |-> result[k]]

\* The searches whose results are handed to from_search_result; drop is
\* a key the caller removes from each dictionary first, "" for none.
ReconstructRequests(table) ==
    [op : {"request"},
     scan : ScanOrders(table),
     query_embedding : {VecA},
     limit : {MaxLimit},
     min_similarity : {Fraction(0, 1), Fraction(7, 10)},
     flags : SearchFlags,
     drop : required_fields \cup {""}]

\* similar_code, then from_search_result for each result.
Reconstruct ==
    /\ found.op = "request"
    /\ LET results == SimilarCodeWith(found.scan, found.query_embedding, found.limit,
                                      found.min_similarity, found.flags)
           dicts == [i \in 1..Len(results) |-> WithoutKey(results[i], found.drop)]
       IN found' = [op |-> "from_search_result",
                    flags |-> found.flags,
                    drop |-> found.drop,
                    results |-> results,
                    dicts |-> dicts,
                    outcomes |-> [i \in 1..Len(dicts) |->
                                    from_search_result(dicts[i], clock)]]
    /\ UNCHANGED <<store, clock, call, gen, stats, produced, run>>

\* ------------------------------------------------------------------- texts

\* A text is a sequence of characters.
Alphabet == {"a", " ", "\n"}

Texts == SeqsUpTo(Alphabet, MaxText)

Descriptions == {<< >>, <<"d">>}

\* "\n\nDescription: "
Joiner == <<"\n", "\n", "D", "e", "s", "c", "r", "i", "p", "t", "i", "o", "n", ":", " ">>

\* f"{content}\n\nDescription: {desc}" if desc else content
CombinedText(content, description) ==
    IF description # << >> THEN content \o Joiner \o description ELSE content

IsSpace(c) == c \in {" ", "\n"}

\* len(text.split()): the number of maximal runs of non-blank characters.
WordCount(text) ==
    Cardinality({ i \in 1..Len(text) :
                    ~IsSpace(text[i]) /\ (i = 1 \/ IsSpace(text[i - 1])) })

\* str.rfind(c): the 0-based index of the last c, or -1.
RFind(text, c) ==
    IF \E i \in 1..Len(text) : text[i] = c
    THEN (CHOOSE i \in 1..Len(text) :
              text[i] = c /\ \A j \in (i + 1)..Len(text) : text[j] # c) - 1
    ELSE 0 - 1

Max(a, b) == IF a >= b THEN a ELSE b

\* len(text.split('\n'))
SplitLines(text) == Cardinality({ i \in 1..Len(text) : text[i] = "\n" }) + 1

\* len(text.splitlines()): a line for every line feed and one for what
\* follows the last line feed, if anything does.
SplitlinesCount(text) ==
    Cardinality({ i \in 1..Len(text) : text[i] = "\n" })
    + (IF text # << >> /\ text[Len(text)] # "\n" THEN 1 ELSE 0)

\* The text has the part somewhere in it.
Contains(text, part) ==
    \E i \in 0..(Len(text) - Len(part)) : SubSeq(text, i + 1, i + Len(part)) = part

\* EmbeddingGenerator._truncate_text: the text and the token estimate.
truncate_text(text) ==
    LET char_limit == EMBEDDING_TOKEN_LIMIT * 3 IN
    IF Len(text) > char_limit
    THEN LET truncated == SubSeq(text, 1, char_limit)
             break_point == Max(RFind(truncated, "\n"), RFind(truncated, " "))
             cut == IF break_point > 0 THEN SubSeq(truncated, 1, break_point)
                                       ELSE truncated
         IN [text |-> cut, tokens |-> WordCount(cut)]
    ELSE [text |-> text, tokens |-> WordCount(text)]

\* The texts handed to _truncate_text: up to one character more than the
\* character budget.
TruncateRequests ==
    [op : {"request"}, fn : {"_truncate_text"},
     text : SeqsUpTo(Alphabet, EMBEDDING_TOKEN_LIMIT * 3 + 1)]

\* A call of EmbeddingGenerator._truncate_text.
TruncateText ==
    /\ gen.op = "request" /\ gen.fn = "_truncate_text"
    /\ gen' = [op |-> "_truncate_text", text |-> gen.text,
               truncated |-> truncate_text(gen.text).text,
               tokens |-> truncate_text(gen.text).tokens]
    /\ UNCHANGED <<store, clock, call, found, stats, produced, run>>

\* ----------------------------------------------------- embedding generation

\* A vector one entry longer than the dimension.
VecLong == [i \in 1..(EMBEDDING_DIMENSION + 1) |-> 1]

\* One element of result.embeddings: an object with values, or None.
Entry(values) == [is_none |-> FALSE, values |-> values]

NoneEntry == [is_none |-> TRUE, values |-> << >>]

Entries == {NoneEntry, Entry(<< >>), Entry(VecShort), Entry(VecA), Entry(VecLong)}

\* What client.models.embed_content does: it raises, returns nothing, or
\* returns a result with at most n embeddings.
Responses(n) ==
    {[kind |-> "raise", embeddings |-> << >>], [kind |-> "none", embeddings |-> << >>]}
    \cup { [kind |-> "result", embeddings |-> e] : e \in SeqsUpTo(Entries, n) }

\* What a block of Python leaves: a returned value or an exception.
Return(value) == [exception |-> FALSE, value |-> value]

Raise == [exception |-> TRUE, value |-> << >>]

HasDimension_unchecked(values) == TRUE

\* len(values) != config.EMBEDDING_DIMENSION is false.
HasDimension(values) == Len(values) = EMBEDDING_DIMENSION

\* The body of the try block of generate after the API call.
GenerateTry(response) ==
    IF response.kind = "raise" THEN Raise
    ELSE IF response.kind = "none" \/ response.embeddings = << >>
    THEN Return(default_embedding)
    ELSE IF response.embeddings[1].is_none THEN Raise  \* None has no .values
    ELSE LET values == response.embeddings[1].values IN
         IF values = << >> THEN Return(default_embedding)
         ELSE IF ~HasDimension(values) THEN Return(default_embedding)
         ELSE Return(values)

\* except Exception as e: ... return self.default_embedding
ExceptReturnsDefault(outcome) ==
    IF outcome.exception THEN Return(default_embedding) ELSE outcome

\* generate reaches its "Update stats" lines.
GenerateSucceeds(response) ==
    /\ response.kind = "result"
    /\ response.embeddings # << >>
    /\ ~response.embeddings[1].is_none
    /\ response.embeddings[1].values # << >>
    /\ HasDimension(response.embeddings[1].values)

\* EmbeddingGenerator.generate: the text sent and what the caller gets.
generate(content, description, response) ==
    LET t == truncate_text(CombinedText(content, description))
    IN [sent |-> t.text, tokens |-> t.tokens,
        outcome |-> ExceptReturnsDefault(GenerateTry(response)),
        success |-> GenerateSucceeds(response)]

\* client.models.count_tokens(...).total_tokens for the four behaviours of
\* the counter: it raises, has no total, counts characters, counts words.
Counters == {"raise", "none", "chars", "words"}

\* token_count = count_tokens(...).total_tokens; token_count = token_count or 0
count_tokens(counter, text) ==
    IF counter = "chars" THEN Len(text)
    ELSE IF counter = "words" THEN WordCount(text)
    ELSE 0

\* The while loop of get_embedding: text[:int(len(text) * 0.9)] until the
\* count is within the limit or the text is at the floor.
RECURSIVE TruncateLoop(_, _, _)
TruncateLoop(text, description, counter) ==
    IF count_tokens(counter, text \o Joiner \o description) > EMBEDDING_TOKEN_LIMIT
       /\ Len(text) > TruncationFloor
    THEN TruncateLoop(SubSeq(text, 1, (Len(text) * 9) \div 10), description, counter)
    ELSE text

\* The checks of get_embedding on the result of embed_content.
GetEmbeddingTry(response) ==
    IF response.kind = "raise" THEN Raise
    ELSE IF response.kind = "result" /\ response.embeddings # << >>
    THEN LET first_embedding == response.embeddings[1] IN
         IF ~first_embedding.is_none /\ first_embedding.values # << >>
         THEN IF HasDimension(first_embedding.values)
              THEN Return(first_embedding.values)
              ELSE Return(default_embedding)
         ELSE Return(default_embedding)
    ELSE Return(default_embedding)

\* parser.get_embedding
get_embedding(text, description, counter, response) ==
    LET cut == TruncateLoop(text, description, counter)
        outcome == IF counter = "raise" THEN Raise ELSE GetEmbeddingTry(response)
    IN [sent |-> cut \o Joiner \o description,
        outcome |-> ExceptReturnsDefault(outcome)]

\* The loop of generate_batch over result.embeddings from entry i on, with
\* the vectors appended and the successes and failures counted so far.
RECURSIVE BatchLoop(_, _, _, _, _)
BatchLoop(embeddings, i, appended, successes, failures) ==
    IF i > Len(embeddings)
    THEN [exception |-> FALSE, value |-> appended,
          successes |-> successes, failures |-> failures]
    ELSE IF embeddings[i].is_none  \* None has no .values
    THEN [exception |-> TRUE, value |-> appended,
          successes |-> successes, failures |-> failures]
    ELSE LET values == embeddings[i].values IN
         IF values = << >> \/ ~HasDimension(values)
         THEN BatchLoop(embeddings, i + 1, Append(appended, default_embedding),
                        successes, failures + 1)
         ELSE BatchLoop(embeddings, i + 1, Append(appended, values),
                        successes + 1, failures)

\* [self.default_embedding] * len(items)
Defaults(n) == [i \in 1..n |-> default_embedding]

RECURSIVE SumTokens(_, _)
SumTokens(items, i) ==
    IF i > Len(items) THEN 0
    ELSE truncate_text(CombinedText(items[i].content, items[i].description)).tokens
         + SumTokens(items, i + 1)

\* EmbeddingGenerator.generate_batch: the texts sent, what the caller gets
\* and what is added to the counters.
generate_batch(items, response) ==
    LET texts == [i \in 1..Len(items) |->
                    truncate_text(CombinedText(items[i].content,
                                               items[i].description)).text]
        n == Len(items)
    IN IF response.kind = "raise"
       THEN [sent |-> texts, outcome |-> Return(Defaults(n)),
             successes |-> 0, failures |-> n, tokens |-> 0]
       ELSE IF response.kind = "none" \/ response.embeddings = << >>
       THEN [sent |-> texts, outcome |-> Return(Defaults(n)),
             successes |-> 0, failures |-> n, tokens |-> 0]
       ELSE LET loop == BatchLoop(response.embeddings, 1, << >>, 0, 0) IN
            IF loop.exception
            THEN [sent |-> texts, outcome |-> Return(Defaults(n)),
                  successes |-> loop.successes, failures |-> loop.failures + n,
                  tokens |-> 0]
            ELSE [sent |-> texts, outcome |-> Return(loop.value),
                  successes |-> loop.successes, failures |-> loop.failures,
                  tokens |-> SumTokens(items, 1)]

\* The (content, description) tuples generate_batch is called with.
Items == { [content |-> <<"a">>, description |-> << >>],
           [content |-> <<"a", " ", "a">>, description |-> <<"d">>] }

\* The calls of the embedding functions that can be requested.
EmbeddingRequests ==
    [op : {"request"}, fn : {"generate"}, content : Texts,
     description : Descriptions, response : Responses(1)]
    \cup [op : {"request"}, fn : {"get_embedding"}, content : Texts,
          description : Descriptions, counter : Counters, response : Responses(1)]
    \cup [op : {"request"}, fn : {"generate_batch"}, items : SeqsUpTo(Items, MaxItems),
          response : Responses(MaxItems + 1)]

\* The counters of the EmbeddingGenerator after a call.
Counted(successes, failures, tokens) ==
    [total_tokens |-> stats.total_tokens + tokens,
     successful_embeddings |-> stats.successful_embeddings + successes,
     failed_embeddings |-> stats.failed_embeddings + failures]

\* A call of EmbeddingGenerator.generate.
Generate ==
    /\ gen.op = "request" /\ gen.fn = "generate"
    /\ LET g == generate(gen.content, gen.description, gen.response) IN
        /\ gen' = [op |-> "generate", content |-> gen.content,
                   description |-> gen.description, response |-> gen.response,
                   sent |-> g.sent, exception |-> g.outcome.exception,
                   result |-> g.outcome.value]
        /\ stats' = IF g.success THEN Counted(1, 0, g.tokens) ELSE Counted(0, 1, 0)
    /\ UNCHANGED <<store, clock, call, found, produced, run>>

\* A call of parser.get_embedding.
GetEmbedding ==
    /\ gen.op = "request" /\ gen.fn = "get_embedding"
    /\ LET g == get_embedding(gen.content, gen.description, gen.counter, gen.response) IN
        gen' = [op |-> "get_embedding", content |-> gen.content,
                description |-> gen.description, counter |-> gen.counter,
                response |-> gen.response,
                sent |-> g.sent, exception |-> g.outcome.exception,
                result |-> g.outcome.value]
    /\ UNCHANGED <<store, clock, call, found, stats, produced, run>>

\* A call of EmbeddingGenerator.generate_batch.
GenerateBatch ==
    /\ gen.op = "request" /\ gen.fn = "generate_batch"
    /\ LET g == generate_batch(gen.items, gen.response) IN
        /\ gen' = [op |-> "generate_batch", items |-> gen.items,
                   response |-> gen.response,
                   sent |-> g.sent, exception |-> g.outcome.exception,
                   result |-> g.outcome.value]
        /\ stats' = Counted(g.successes, g.failures, g.tokens)
    /\ UNCHANGED <<store, clock, call, found, produced, run>>

\* ------------------------------------------------------------ descriptions

\* str.strip() of a text: the blanks at both ends are dropped.
RECURSIVE LStrip(_)
LStrip(text) ==
    IF text # << >> /\ IsSpace(Head(text)) THEN LStrip(Tail(text)) ELSE text

RECURSIVE RStrip(_)
RStrip(text) ==
    IF text # << >> /\ IsSpace(text[Len(text)])
    THEN RStrip(SubSeq(text, 1, Len(text) - 1)) ELSE text

Strip(text) == RStrip(LStrip(text))

\* What client.models.generate_content does: it raises, returns nothing, or
\* returns a response with a text (empty, blank, or words with blanks around).
Answers ==
    { [kind |-> "raise", text |-> << >>], [kind |-> "none", text |-> << >>] }
    \cup { [kind |-> "response", text |-> t] :
             t \in { << >>, <<" ">>, <<"x">>, <<" ", "x", "\n">> } }

\* The description_templates of config.LANGUAGES, by construct type; the
\* text before {{purpose}}.
description_templates ==
    [function_definition |-> <<"Python function that ">>,
     class_definition |-> <<"Python class that ">>,
     terraform_module |-> <<"Terraform module that ">>,
     terraform_resource |-> <<"Terraform resource that ">>,
     terraform_data |-> <<"Terraform data source that ">>,
     markdown_heading |-> <<"Markdown heading that ">>,
     markdown_section |-> <<"Markdown section that ">>,
     markdown_code_block |-> <<"Markdown code block that ">>,
     web_html_document |-> <<"Complete HTML document that ">>,
     web_html_section |-> <<"HTML section that ">>,
     web_html_code_block |-> <<"HTML code block that ">>,
     whole_file |-> <<"Complete Python file that ">>]

\* construct_type.startswith('terraform_')
IsTerraformType(construct_type) ==
    construct_type \in {"terraform_module", "terraform_resource", "terraform_data",
                        "terraform_variable"}

\* construct_type.replace('terraform_', '')
TerraformKind(construct_type) ==
    CASE construct_type = "terraform_module" -> "module"
      [] construct_type = "terraform_resource" -> "resource"
      [] construct_type = "terraform_data" -> "data"
      [] construct_type = "terraform_variable" -> "variable"
      [] OTHER -> construct_type

\* The fallback lines at the end of generate_description.
FallbackDescription(construct_type, name) ==
    IF IsTerraformType(construct_type)
    THEN <<TerraformKind(construct_type), " named ">> \o name
    ELSE <<construct_type, " named ">> \o name

\* Template(template).render(purpose=description)
Render(template, purpose) == template \o purpose

\* What a try block leaves: a value returned inside it, an exception, or
\* neither (control runs past the block).
Returned(value) == [exception |-> FALSE, returned |-> TRUE, value |-> value]

Raised == [exception |-> TRUE, returned |-> FALSE, value |-> << >>]

FellThrough == [exception |-> FALSE, returned |-> FALSE, value |-> << >>]

\* The try block of generate_description.
GenerateDescriptionTry(code, construct_type, name, answer) ==
    IF ~IsTerraformType(construct_type)
       /\ construct_type \notin DOMAIN description_templates
    THEN Returned(<<construct_type, " named ">> \o name)
    ELSE IF answer.kind = "raise" THEN Raised
    ELSE IF answer.kind = "response" /\ answer.text # << >>
    THEN LET description == Strip(answer.text) IN
         IF ~IsTerraformType(construct_type)
         THEN Returned(Render(description_templates[construct_type], description))
         ELSE Returned(description)
    ELSE FellThrough

\* except Exception: print(...), then the lines after the try statement.
ExceptThen(tried, after) ==
    IF tried.returned THEN Return(tried.value) ELSE Return(after)

\* parser.generate_description
generate_description(code, construct_type, name, answer) ==
    ExceptThen(GenerateDescriptionTry(code, construct_type, name, answer),
               FallbackDescription(construct_type, name))

\* The text get_code_description returns when it has no answer.
NoDescriptionAvailable == <<"No description available">>

\* The try block of get_code_description.
GetCodeDescriptionTry(code, answer) ==
    IF answer.kind = "raise" THEN Raised
    ELSE IF answer.kind = "response" /\ answer.text # << >>
    THEN Returned(Strip(answer.text))
    ELSE FellThrough

\* parser.get_code_description
get_code_description(code, answer) ==
    ExceptThen(GetCodeDescriptionTry(code, answer), NoDescriptionAvailable)

\* The construct types and names descriptions are asked for.
DescribedTypes ==
    {"function_definition", "class_definition", "terraform_resource",
     "terraform_module", "terraform_data", "markdown_heading", "source_file"}

DescribedNames == {<<"f", "o", "o">>, <<"w", "e", "b">>}

\* The description of a construct that can be requested, by the function
\* the pipeline calls for its type.
DescriptionRequests ==
    [op : {"request"}, fn : {"generate_description"},
     code : {<<"a">>}, construct_type : DescribedTypes, name : DescribedNames,
     answer : Answers]
    \cup [op : {"request"}, fn : {"get_code_description"}, code : {<<"a">>},
          construct_type : {"function_definition", "class_definition"},
          name : DescribedNames, answer : Answers]

\* A call of generate_description.
GenerateDescription ==
    /\ gen.op = "request" /\ gen.fn = "generate_description"
    /\ LET d == generate_description(gen.code, gen.construct_type, gen.name,
                                     gen.answer) IN
        gen' = [op |-> "generate_description", construct_type |-> gen.construct_type,
                name |-> gen.name, answer |-> gen.answer,
                exception |-> d.exception, result |-> d.value]
    /\ UNCHANGED <<store, clock, call, found, stats, produced, run>>

\* A call of get_code_description for the code of a construct.
GetCodeDescription ==
    /\ gen.op = "request" /\ gen.fn = "get_code_description"
    /\ LET d == get_code_description(gen.code, gen.answer) IN
        gen' = [op |-> "get_code_description", construct_type |-> gen.construct_type,
                name |-> gen.name, answer |-> gen.answer,
                exception |-> d.exception, result |-> d.value]
    /\ UNCHANGED <<store, clock, call, found, stats, produced, run>>

\* ------------------------------------------------------------ syntax trees

\* A node of a tree-sitter tree: its type, its byte span and its children.
Node(type, start_byte, end_byte, children) ==
    [type |-> type, start_byte |-> start_byte, end_byte |-> end_byte,
     children |-> children]

\* code_bytes[start_byte:end_byte].decode('utf-8')
Slice(code_bytes, start_byte, end_byte) == SubSeq(code_bytes, start_byte + 1, end_byte)

\* The row of a byte offset, as tree-sitter counts it: the number of line
\* feeds before it.
Row(code_bytes, offset) ==
    Cardinality({ i \in 1..offset : code_bytes[i] = "\n" })

\* A start row counted from 1.
StartRow_from_one(node, code_bytes) == Row(code_bytes, node.start_byte) + 1

\* node.start_point[0] and node.end_point[0]
StartRow(node, code_bytes) == Row(code_bytes, node.start_byte)

EndRow(node, code_bytes) == Row(code_bytes, node.end_byte)

\* The sequences of at most n of the nodes that lie between the two
\* offsets, in order and without overlap: the children a parent with this
\* span can have.
RECURSIVE ChildSeqs(_, _, _, _)
ChildSeqs(nodes, start_byte, end_byte, n) ==
    {<< >>} \cup
    (IF n = 0 THEN {}
     ELSE UNION { { <<c>> \o rest : rest \in ChildSeqs(nodes, c.end_byte, end_byte, n - 1) } :
                  c \in { c \in nodes : c.start_byte >= start_byte /\ c.end_byte <= end_byte } })

\* The trees of at most the given depth whose nodes have the given types and
\* the given spans.
RECURSIVE NodesUpTo(_, _, _)
NodesUpTo(depth, types, spans) ==
    IF depth = 0 THEN {}
    ELSE LET below == NodesUpTo(depth - 1, types, spans) IN
         UNION { { Node(t, sp[1], sp[2], c) :
                     t \in types, c \in ChildSeqs(below, sp[1], sp[2], MaxChildren) } :
                 sp \in spans }

\* The trees a parser can give for a text: a root of the given type over the
\* whole text, with well-nested trees under it.
Trees(root_type, code_bytes, types, spans) ==
    { Node(root_type, 0, Len(code_bytes), c) :
        c \in ChildSeqs(NodesUpTo(2, types, spans), 0, Len(code_bytes), MaxChildren) }

\* ------------------------------------------------------- parse_file, Python

\* "\n\ndef foo():\n    pass\n": def foo on lines 3 and 4 of the file.
PythonText == <<"\n", "\n", "d", "e", "f", " ", "f", "o", "o", "(", ")", ":", "\n", " ", " ", " ", " ", "p", "a", "s", "s", "\n">>

PythonTypes == {"function_definition", "class_definition", "identifier", "block"}

\* The spans of the definition, of def, of foo and of the rest.
PythonSpans == {<<2, 21>>, <<2, 6>>, <<6, 9>>, <<9, 21>>}

\* The parsed Python files: every tree over the text, and the empty file.
PythonSources ==
    { [code_bytes |-> PythonText, root |-> r] :
        r \in Trees("module", PythonText, PythonTypes, PythonSpans) }
    \cup { [code_bytes |-> << >>, root |-> Node("module", 0, 0, << >>)] }

Unnamed == <<"u", "n", "n", "a", "m", "e", "d">>

\* parser.get_node_name: the text of the first identifier child.
get_node_name(node, code_bytes) ==
    IF \E i \in 1..Len(node.children) : node.children[i].type = "identifier"
    THEN LET i == CHOOSE i \in 1..Len(node.children) :
                     /\ node.children[i].type = "identifier"
                     /\ \A j \in 1..(i - 1) : node.children[j].type # "identifier"
         IN Slice(code_bytes, node.children[i].start_byte, node.children[i].end_byte)
    ELSE Unnamed

\* extract_construct of parse_file: the pair appended for a function or
\* class definition node, nothing for any other node.
extract_construct(node, code_bytes, answer, response) ==
    IF node.type \in {"function_definition", "class_definition"}
    THEN LET code_text == Slice(code_bytes, node.start_byte, node.end_byte)
             construct_name == get_node_name(node, code_bytes)
             description == get_code_description(code_text, answer).value
             embedding == get_embedding(code_text, description, "words",
                                        response).outcome.value
             construct == MakeConstruct("a.py", "repo", "c0ffee", code_text, node.type, construct_name, description, StartRow(node, code_bytes) + 1, EndRow(node, code_bytes) + 1, embedding)
         IN <<Pair(construct, construct.embedding)>>
    ELSE << >>

\* visit_node of the Python branch: the node, then its children in order.
RECURSIVE PythonVisitNode(_, _, _, _)
PythonVisitNode(node, code_bytes, answer, response) ==
    LET RECURSIVE Children(_)
        Children(i) ==
            IF i > Len(node.children) THEN << >>
            ELSE PythonVisitNode(node.children[i], code_bytes, answer, response)
                 \o Children(i + 1)
    IN extract_construct(node, code_bytes, answer, response) \o Children(1)

\* What the description model and the embedding provider do during one
\* parse: they answer or they fail.
ParseAnswers == { [kind |-> "raise", text |-> << >>], [kind |-> "response", text |-> <<"x">>] }

ParseResponses ==
    { [kind |-> "raise", embeddings |-> << >>],
      [kind |-> "result", embeddings |-> <<Entry(VecA)>>] }

\* The parses of a source that can be requested.
ParseRequests(fn, sources) ==
    [op : {"request"}, fn : {fn}, source : sources, answer : ParseAnswers,
     response : ParseResponses]

\* What a parse returns: the constructs with their vectors.
Parsed(pairs) ==
    [op |-> produced.fn, source |-> produced.source, answer |-> produced.answer,
     response |-> produced.response, pairs |-> pairs]

\* parse_file on a .py file.
ParsePython ==
    /\ produced.op = "request" /\ produced.fn = "parse_python"
    /\ produced' = Parsed(PythonVisitNode(produced.source.root,
                                          produced.source.code_bytes,
                                          produced.answer, produced.response))
    /\ UNCHANGED <<store, clock, call, found, gen, stats, run>>

\* ---------------------------------------------------- parse_file, Terraform

\* TERRAFORM_TYPES, by the text of the block type.
TERRAFORM_TYPES ==
    [t \in {<<"r", "e", "s", "o", "u", "r", "c", "e">>, <<"m", "o", "d", "u", "l", "e">>, <<"d", "a", "t", "a">>} |->
        IF t = <<"r", "e", "s", "o", "u", "r", "c", "e">> THEN "terraform_resource"
        ELSE IF t = <<"m", "o", "d", "u", "l", "e">> THEN "terraform_module" ELSE "terraform_data"]

\* The block types and labels of the blocks of the files.
BlockTypes == {<<"r", "e", "s", "o", "u", "r", "c", "e">>, <<"m", "o", "d", "u", "l", "e">>, <<"d", "a", "t", "a">>, <<"v", "a", "r", "i", "a", "b", "l", "e">>}

\* A block as written: its type and its quoted labels (none, "aws_instance",
\* or "aws_instance" "web"), before an empty body.
Blocks ==
    [type : BlockTypes,
     labels : {<< >>, <<(<<"a", "w", "s", "_", "i", "n", "s", "t", "a", "n", "c", "e">>)>>,
               <<(<<"a", "w", "s", "_", "i", "n", "s", "t", "a", "n", "c", "e">>), <<"w", "e", "b">>>>}]

\* The text of the labels of a block, each after a blank and in quotes.
RECURSIVE LabelsText(_)
LabelsText(labels) ==
    IF labels = << >> THEN << >>
    ELSE <<" ", "\"">> \o Head(labels) \o <<"\"">> \o LabelsText(Tail(labels))

\* resource "aws_instance" "web" {}
BlockText(block) == block.type \o LabelsText(block.labels) \o <<" ", "{", "}">>

\* The string_lit nodes of the labels, the first beginning at the offset.
RECURSIVE LabelNodes(_, _)
LabelNodes(labels, offset) ==
    IF labels = << >> THEN << >>
    ELSE <<Node("string_lit", offset + 1, offset + 3 + Len(Head(labels)), << >>)>>
         \o LabelNodes(Tail(labels), offset + 3 + Len(Head(labels)))

\* The block node the HCL grammar gives for a block beginning at the offset:
\* identifier, string_lit for each label, block_start, block_end.
BlockNode(block, offset) ==
    LET end_byte == offset + Len(BlockText(block)) IN
    Node("block", offset, end_byte,
         <<Node("identifier", offset, offset + Len(block.type), << >>)>>
         \o LabelNodes(block.labels, offset + Len(block.type))
         \o <<Node("block_start", end_byte - 2, end_byte - 1, << >>),
              Node("block_end", end_byte - 1, end_byte, << >>)>>)

\* The text of a file of blocks, one to a line.
RECURSIVE FileText(_)
FileText(blocks) ==
    IF blocks = << >> THEN << >>
    ELSE BlockText(Head(blocks)) \o <<"\n">> \o FileText(Tail(blocks))

RECURSIVE FileBlockNodes(_, _)
FileBlockNodes(blocks, offset) ==
    IF blocks = << >> THEN << >>
    ELSE <<BlockNode(Head(blocks), offset)>>
         \o FileBlockNodes(Tail(blocks), offset + Len(BlockText(Head(blocks))) + 1)

\* The parsed Terraform files: config_file, body, blocks.
HclSource(blocks) ==
    LET code_bytes == FileText(blocks) IN
    [blocks |-> blocks,
     code_bytes |-> code_bytes,
     root |-> Node("config_file", 0, Len(code_bytes),
                   IF blocks = << >> THEN << >>
                   ELSE <<Node("body", 0, Len(code_bytes) - 1,
                               FileBlockNodes(blocks, 0))>>)]

HclSources == { HclSource(blocks) : blocks \in SeqsUpTo(Blocks, MaxChildren) }

\* parser.parse_terraform_block: the type, name, code and lines of a block
\* node; the name is the text of the second child, without its quotes when
\* it is a string_lit.  The empty sequence stands for None.
parse_terraform_block(node, code_bytes) ==
    LET block_type == IF node.children # << >>
                      THEN Slice(code_bytes, node.children[1].start_byte,
                                 node.children[1].end_byte)
                      ELSE << >>
        block_name == IF Len(node.children) > 1
                      THEN LET name_node == node.children[2] IN
                           IF name_node.type = "string_lit"
                           THEN Slice(code_bytes, name_node.start_byte + 1,
                                      name_node.end_byte - 1)
                           ELSE Slice(code_bytes, name_node.start_byte,
                                      name_node.end_byte)
                      ELSE << >>
    IN IF block_type = << >> \/ block_name = << >> THEN << >>
       ELSE <<[type |-> block_type, name |-> block_name,
               code |-> Slice(code_bytes, node.start_byte, node.end_byte),
               start_line |-> StartRow(node, code_bytes) + 1,
               end_line |-> EndRow(node, code_bytes) + 1]>>

\* One construct of parse_file's .tf branch: the construct of
\* extract_terraform_constructs with git_commit, repository and description
\* filled in, paired with its vector.
TerraformConstruct(code, construct_type, name, line_start, line_end, answer, response) ==
    LET description == generate_description(code, construct_type, name, answer).value
    IN Pair(MakeConstruct("main.tf", "repo", "c0ffee", code, construct_type, name, description, line_start, line_end, << >>),
            get_embedding(code, description, "words", response).outcome.value)

\* visit_node of extract_terraform_constructs with the loop of parse_file
\* applied to what it appends.
RECURSIVE TerraformVisitNode(_, _, _, _)
TerraformVisitNode(node, code_bytes, answer, response) ==
    LET RECURSIVE Children(_)
        Children(i) ==
            IF i > Len(node.children) THEN << >>
            ELSE TerraformVisitNode(node.children[i], code_bytes, answer, response)
                 \o Children(i + 1)
        block_info == IF node.type = "block"
                      THEN parse_terraform_block(node, code_bytes) ELSE << >>
    IN (IF block_info # << >> /\ block_info[1].type \in DOMAIN TERRAFORM_TYPES
        THEN <<TerraformConstruct(block_info[1].code,
                                  TERRAFORM_TYPES[block_info[1].type],
                                  block_info[1].name, block_info[1].start_line,
                                  block_info[1].end_line, answer, response)>>
        ELSE << >>)
       \o Children(1)

\* parse_file on a .tf file the HCL parser accepts.
ParseTerraform ==
    /\ produced.op = "request" /\ produced.fn = "parse_terraform"
    /\ produced' = Parsed(TerraformVisitNode(produced.source.root,
                                             produced.source.code_bytes,
                                             produced.answer, produced.response))
    /\ UNCHANGED <<store, clock, call, found, gen, stats, run>>

\* One section of a Terraform JSON file: {type: {resource_type:
\* {resource_name: config}}}, the config with the given number of keys.
JsonSections ==
    [type : BlockTypes, resource_type : {<<"a", "w", "s", "_", "i", "n", "s", "t", "a", "n", "c", "e">>}, resource_name : {<<"w", "e", "b">>},
     keys : 0..1]

\* The Terraform JSON files: an object of sections with distinct keys; the
\* text that is no JSON at all is the source without an object.
JsonSources ==
    { [is_json |-> TRUE, sections |-> d] :
        d \in { d \in SeqsUpTo(JsonSections, MaxChildren) :
                  \A i, j \in 1..Len(d) : i # j => d[i].type # d[j].type } }
    \cup { [is_json |-> FALSE, sections |-> << >>] }

\* json.dumps({type: {resource_type: {resource_name: config}}}, indent=2)
JsonDumps(section) ==
    <<"{", "\n", "  \"">> \o section.type \o <<"\": {", "\n", "    \"">>
    \o section.resource_type \o <<"\": {", "\n", "      \"">>
    \o section.resource_name
    \o (IF section.keys = 0 THEN <<"\": {}">>
        ELSE <<"\": {", "\n", "        \"k\": \"v\"", "\n", "      }">>)
    \o <<"\n", "    }", "\n", "  }", "\n", "}">>

\* The JSON branch of extract_terraform_constructs with the loop of
\* parse_file applied to what it returns.
RECURSIVE TerraformJsonConstructs(_, _, _)
TerraformJsonConstructs(sections, answer, response) ==
    IF sections = << >> THEN << >>
    ELSE LET section == Head(sections)
             code == JsonDumps(section)
         IN (IF section.type \in DOMAIN TERRAFORM_TYPES
             THEN <<TerraformConstruct(code, TERRAFORM_TYPES[section.type],
                                       section.resource_type \o <<".">>
                                           \o section.resource_name,
                                       1, SplitLines(code), answer, response)>>
             ELSE << >>)
            \o TerraformJsonConstructs(Tail(sections), answer, response)

\* parse_file on a .tf file the HCL parser rejects: the file is read as
\* JSON, and a file that is no JSON gives no constructs.
ParseTerraformJson ==
    /\ produced.op = "request" /\ produced.fn = "parse_terraform_json"
    /\ produced' = Parsed(IF produced.source.is_json
                          THEN TerraformJsonConstructs(produced.source.sections,
                                                       produced.answer,
                                                       produced.response)
                          ELSE << >>)
    /\ UNCHANGED <<store, clock, call, found, gen, stats, run>>

\* ----------------------------------------------------- parse_file, Markdown

\* MARKDOWN_TYPES
MARKDOWN_TYPES ==
    [atx_heading |-> "markdown_heading",
     setext_heading |-> "markdown_heading",
     paragraph |-> "markdown_section",
     fenced_code_block |-> "markdown_code_block",
     indented_code_block |-> "markdown_code_block",
     list |-> "markdown_list",
     blockquote |-> "markdown_quote",
     thematic_break |-> "markdown_hr",
     link_reference_definition |-> "markdown_link_ref",
     html_block |-> "markdown_html"]

\* "# Title\n\nBody text."
MarkdownText == <<"#", " ", "T", "i", "t", "l", "e", "\n", "\n", "B", "o", "d", "y", " ", "t", "e", "x", "t", ".">>

\* The backquote character, which a string of this language cannot hold.
Backquote == "~"

\* A fenced code block: three backquotes and py, a line x, three backquotes.
FencedText ==
    <<Backquote, Backquote, Backquote, "p", "y", "\n", "x", "\n",
      Backquote, Backquote, Backquote>>

\* The same fence without an info string, and a block indented by four
\* blanks.
EmptyFenceText ==
    <<Backquote, Backquote, Backquote, "\n", "x", "\n", Backquote, Backquote, Backquote>>

IndentedText == <<" ", " ", " ", " ", "x">>

\* The node types of the code blocks, and one that is not in the table.
CodeBlockTypes == {"fenced_code_block", "indented_code_block", "section"}

\* The texts of the code blocks.
CodeBlockTexts == {FencedText, EmptyFenceText, IndentedText}

\* The node types of the generated trees: three of the table, one not.
MarkdownNodeTypes == {"atx_heading", "paragraph", "fenced_code_block", "section"}

\* The spans of the whole text, of the heading line and of the body.
MarkdownSpans == {<<0, 19>>, <<0, 8>>, <<9, 19>>}

\* The parsed markdown files: every tree over the heading and its body,
\* the trees over each code block, and the empty file.
MarkdownSources ==
    { [code_bytes |-> MarkdownText, root |-> r] :
        r \in Trees("document", MarkdownText, MarkdownNodeTypes, MarkdownSpans) }
    \cup UNION { { [code_bytes |-> t, root |-> r] :
                       r \in Trees("document", t, CodeBlockTypes, {<<0, Len(t)>>}) } :
                   t \in CodeBlockTexts }
    \cup { [code_bytes |-> << >>, root |-> Node("document", 0, 0, << >>)] }

\* str.strip(chars)
RECURSIVE StripChars(_, _)
StripChars(text, chars) ==
    IF text # << >> /\ Head(text) \in chars THEN StripChars(Tail(text), chars)
    ELSE IF text # << >> /\ text[Len(text)] \in chars
    THEN StripChars(SubSeq(text, 1, Len(text) - 1), chars)
    ELSE text

\* text.split('\n')[0]
FirstLine(text) ==
    IF \E i \in 1..Len(text) : text[i] = "\n"
    THEN SubSeq(text, 1, (CHOOSE i \in 1..Len(text) :
                            text[i] = "\n" /\ \A j \in 1..(i - 1) : text[j] # "\n") - 1)
    ELSE text

\* The name extract_markdown_constructs gives a node of the table.
MarkdownName(node_type, node_text) ==
    IF node_type \in {"atx_heading", "setext_heading"}
    THEN Strip(StripChars(node_text, {"#"}))
    ELSE IF node_type \in {"fenced_code_block", "indented_code_block"}
    THEN IF Contains(FirstLine(node_text), <<Backquote, Backquote, Backquote>>)
         THEN Strip(StripChars(FirstLine(node_text), {Backquote}))
         ELSE <<"c", "o", "d", "e">>
    ELSE SubSeq(FirstLine(node_text), 1, Min(MaxNameLength, Len(FirstLine(node_text))))

\* The description extract_markdown_constructs embeds with the text; it is
\* not put in the construct.
MarkdownDescription(node_type, construct_type, name) ==
    IF node_type \in {"atx_heading", "setext_heading"}
    THEN <<"Markdown heading: ">> \o name
    ELSE IF node_type \in {"fenced_code_block", "indented_code_block"}
    THEN <<"Code block in ">>
         \o (IF name # <<"c", "o", "d", "e">> THEN name ELSE <<"unknown">>)
    ELSE <<"Markdown ", construct_type>>

\* What visit_node of extract_markdown_constructs appends for one node: a
\* construct when the type of the node is in the table; parse_file fills
\* in git_commit and repository.
MarkdownConstruct(node, code_bytes, response) ==
    LET node_text == Slice(code_bytes, node.start_byte, node.end_byte) IN
    IF node.type \in DOMAIN MARKDOWN_TYPES
    THEN LET construct_type == MARKDOWN_TYPES[node.type]
             name == MarkdownName(node.type, node_text)
             description == MarkdownDescription(node.type, construct_type, name)
         IN <<Pair(MakeConstruct("README.md", "repo", "c0ffee", node_text, construct_type, name, << >>, StartRow(node, code_bytes) + 1, EndRow(node, code_bytes) + 1, << >>),
                   get_embedding(node_text, description, "words",
                                 response).outcome.value)>>
    ELSE << >>

\* A visit that does not descend below a node of the table.
RECURSIVE MarkdownVisitNode_stops(_, _, _)
MarkdownVisitNode_stops(node, code_bytes, response) ==
    LET RECURSIVE Children(_)
        Children(i) ==
            IF i > Len(node.children) THEN << >>
            ELSE MarkdownVisitNode_stops(node.children[i], code_bytes, response)
                 \o Children(i + 1)
    IN IF node.type \in DOMAIN MARKDOWN_TYPES
       THEN MarkdownConstruct(node, code_bytes, response)
       ELSE Children(1)

\* visit_node of extract_markdown_constructs: the node, then its children in
\* order.
RECURSIVE MarkdownVisitNode(_, _, _)
MarkdownVisitNode(node, code_bytes, response) ==
    LET RECURSIVE Children(_)
        Children(i) ==
            IF i > Len(node.children) THEN << >>
            ELSE MarkdownVisitNode(node.children[i], code_bytes, response)
                 \o Children(i + 1)
    IN MarkdownConstruct(node, code_bytes, response) \o Children(1)

\* parse_file on a .md file.
ParseMarkdown ==
    /\ produced.op = "request" /\ produced.fn = "parse_markdown"
    /\ produced' = Parsed(MarkdownVisitNode(produced.source.root,
                                            produced.source.code_bytes,
                                            produced.response))
    /\ UNCHANGED <<store, clock, call, found, gen, stats, run>>

\* ---------------------------------------------------------- the run of main

h_fn == [filename |-> "b.py", name |-> "h", construct_type |-> "function_definition"]

tf_var == [filename |-> "vars.tf", name |-> "region",
           construct_type |-> "terraform_variable"]

\* What parse_file hands over for each tracked file: a.py defines f twice,
\* b.py defines h, main.tf a resource, and the vector of the variable of
\* vars.tf is one entry short.
FileBatches ==
    { <<Pair(CodeConstruct(f_fn, 1, VecA), VecA), Pair(CodeConstruct(f_fn, 2, VecB), VecB)>>,
      <<Pair(CodeConstruct(h_fn, 1, VecA), VecA)>>,
      <<Pair(CodeConstruct(tf_res, 2, << >>), VecB)>>,
      <<Pair(CodeConstruct(tf_var, 1, << >>), VecShort)>> }

\* The batches of the tracked files in the order main goes through them.
Plans ==
    { plan \in SeqsUpTo(FileBatches, MaxPlan) :
        \A i, j \in 1..Len(plan) : i # j => plan[i] # plan[j] }

\* The for loop of main from file i on: store_constructs for each file until
\* one raises, which ends main.
RECURSIVE RunAll(_, _, _, _)
RunAll(table, plan, i, now) ==
    IF i > Len(plan) THEN [table |-> table, failed |-> FALSE, clock |-> now]
    ELSE LET t == StoreConstructsSimple(table, plan[i], now, 0) IN
         IF t.raised THEN [table |-> t.table, failed |-> TRUE, clock |-> t.clock]
         ELSE RunAll(t.table, plan, i + 1, t.clock)

\* One iteration of the for loop of main: the batch of the next file is
\* stored; an exception of store_constructs ends the run.
MainStoreConstructs ==
    /\ run.phase \in {"first", "rerun"}
    /\ run.pos <= Len(run.plan)
    /\ LET t == StoreConstructsSimple(store, run.plan[run.pos], clock, 0) IN
        /\ store' = t.table
        /\ clock' = t.clock
        /\ run' = [run EXCEPT
                     !.pos = IF t.raised THEN @ ELSE @ + 1,
                     !.phase = IF t.raised THEN "failed"
                               ELSE IF run.pos = Len(run.plan)
                               THEN (IF @ = "first" THEN "uninterrupted" ELSE "done")
                               ELSE @]
    /\ UNCHANGED <<call, found, gen, stats, produced>>

\* The first run is killed after the batches committed so far, d calls into
\* the transaction of the next file, whose work is discarded; main is then
\* started again and goes through every file.
AbortAndRerun ==
    /\ run.phase = "first"
    /\ \E d \in 0..(IF run.pos <= Len(run.plan) THEN Len(run.plan[run.pos]) ELSE 0) :
          clock' = clock + d + 1
    /\ run' = [run EXCEPT !.phase = IF run.plan = << >> THEN "done" ELSE "rerun",
                          !.pos = 1,
                          !.aborted_after = run.pos - 1]
    /\ UNCHANGED <<store, call, found, gen, stats, produced>>

\* ------------------------------------------------ extractors and processors

\* One function, block, section or code block found in the input, with what
\* the token counter and the embedding provider do when asked about it.
Units ==
    [code : {<<"a">>, <<"a", " ", "a">>},
     counter : {"words", "raise"},
     response : { [kind |-> "raise", embeddings |-> << >>],
                  [kind |-> "result", embeddings |-> << >>],
                  [kind |-> "result", embeddings |-> <<Entry(VecA)>>],
                  [kind |-> "result", embeddings |-> <<Entry(VecShort)>>] }]

\* The description handed to the embedding function, whatever its wording.
SomeDescription == <<"d">>

\* parser.get_embedding for a unit.
UnitGetEmbedding(unit) ==
    get_embedding(unit.code, SomeDescription, unit.counter, unit.response).outcome.value

\* BaseProcessor._generate_embedding for a unit: embedding_generator.generate.
UnitGenerate(unit) ==
    generate(unit.code, SomeDescription, unit.response).outcome.value

\* parse_file, .py branch: extract_construct puts the vector in the construct
\* and appends (construct, construct.embedding).
PythonPair(unit) ==
    LET embedding == UnitGetEmbedding(unit)
        construct == MakeConstruct("a.py", "repo", "c0ffee", unit.code,
                                   "function_definition", "f", SomeDescription,
                                   1, 2, embedding)
    IN Pair(construct, construct.embedding)

\* extract_terraform_constructs leaves embedding=[]; parse_file fills in
\* git_commit, repository and description and pairs the vector.
TerraformPair(unit) ==
    LET construct == MakeConstruct("main.tf", "repo", "c0ffee", unit.code,
                                   "terraform_resource", "aws_instance",
                                   SomeDescription, 1, 2, << >>)
    IN Pair(construct, UnitGetEmbedding(unit))

\* extract_markdown_constructs leaves embedding=[] and description='';
\* parse_file fills in git_commit and repository.
MarkdownPair(unit) ==
    LET construct == MakeConstruct("README.md", "repo", "c0ffee", unit.code,
                                   "markdown_heading", "Title", << >>,
                                   1, 2, << >>)
    IN Pair(construct, UnitGetEmbedding(unit))

\* LocalFileProcessor.process_markdown: one construct per fenced block.
LocalMarkdownPair(unit) ==
    LET embedding == UnitGenerate(unit)
        construct == MakeConstruct("README.md", "", "c0ffee", unit.code,
                                   "markdown_code_block", "README.md_python_block",
                                   SomeDescription, 1, 2, embedding)
    IN Pair(construct, embedding)

\* LocalFileProcessor.process_code_file: one construct for the file.
LocalCodePair(unit) ==
    LET embedding == UnitGenerate(unit)
        construct == MakeConstruct("a.py", "", "c0ffee", unit.code,
                                   "source_file", "a.py", SomeDescription,
                                   1, SplitlinesCount(unit.code), embedding)
    IN Pair(construct, embedding)

\* WebProcessor.process: code blocks and text sections, embedding=[].
WebPair(unit) ==
    LET construct == MakeConstruct("http://x", "web", "", unit.code,
                                   "code_block", "Code Block (python)",
                                   SomeDescription, 0, 0, << >>)
    IN Pair(construct, UnitGenerate(unit))

\* web_parser.parse_html_document: document, sections and code blocks,
\* embedding=[].
HtmlPair(unit) ==
    LET construct == MakeConstruct("http://x", "web", "", unit.code,
                                   "web_html_section", "Heading",
                                   SomeDescription, 1, 1, << >>)
    IN Pair(construct, UnitGetEmbedding(unit))

Extractors ==
    {"parse_file_py", "parse_file_tf", "parse_file_md", "process_markdown",
     "process_code_file", "WebProcessor_process", "parse_html_document"}

\* The calls of the extractors that can be requested: the units of the
\* input, and whether reading the input raises.
ExtractRequests ==
    [op : {"request"}, fn : Extractors, units : SeqsUpTo(Units, MaxUnits),
     readable : BOOLEAN]

\* The list an extractor returns.
Produced(fn, pairs) == [op |-> fn, units |-> produced.units, pairs |-> pairs]

\* The units of the request in the order in which the extractor finds them.
UnitIndexes == 1..Len(produced.units)

\* An extractor returns its list of (construct, embedding) tuples; an
\* exception while reading or parsing gives the empty list.
Extract(fn, pairs) ==
    /\ produced.op = "request" /\ produced.fn = fn
    /\ produced' = Produced(fn, IF produced.readable THEN pairs ELSE << >>)
    /\ UNCHANGED <<store, clock, call, found, gen, stats, run>>

ParseFilePython ==
    Extract("parse_file_py", [i \in UnitIndexes |-> PythonPair(produced.units[i])])

ParseFileTerraform ==
    Extract("parse_file_tf", [i \in UnitIndexes |-> TerraformPair(produced.units[i])])

ParseFileMarkdown ==
    Extract("parse_file_md", [i \in UnitIndexes |-> MarkdownPair(produced.units[i])])

ProcessMarkdown ==
    Extract("process_markdown",
            [i \in UnitIndexes |-> LocalMarkdownPair(produced.units[i])])

\* process_code_file makes one construct of the whole file.
ProcessCodeFile ==
    /\ produced.op = "request" /\ produced.fn = "process_code_file"
    /\ produced.units # << >>
    /\ produced' = Produced("process_code_file",
                            IF produced.readable
                            THEN <<LocalCodePair(produced.units[1])>> ELSE << >>)
    /\ UNCHANGED <<store, clock, call, found, gen, stats, run>>

WebProcessorProcess ==
    Extract("WebProcessor_process", [i \in UnitIndexes |-> WebPair(produced.units[i])])

ParseHtmlDocument ==
    Extract("parse_html_document", [i \in UnitIndexes |-> HtmlPair(produced.units[i])])

\* ------------------------------------------------------ parse_html_document

\* What BeautifulSoup and the helpers find in a document: the title, the
\* main content, the sections and the code blocks.
HtmlContents == {<< >>, <<"a", "\n", "a">>, <<"a", "\n", "a", "\n", "a">>}

HtmlSections == [heading : {<<"H">>}, content : HtmlContents]

HtmlCodeBlocks == [language : {<<"p", "y">>}, code : {<<"a">>, <<"a", "\n", "b">>}]

HtmlSources ==
    [title : {<<"T">>}, main_content : HtmlContents,
     sections : SeqsUpTo(HtmlSections, MaxChildren),
     code_blocks : SeqsUpTo(HtmlCodeBlocks, 1)]

\* One construct of parse_html_document with its vector; the construct
\* keeps embedding=[].
HtmlConstruct(code, construct_type, name, description, embedded, response) ==
    Pair(MakeConstruct("http://x", "web", "", code, construct_type, name, description, 1, SplitLines(code), << >>),
         get_embedding(code, embedded, "words", response).outcome.value)

\* The loop over the sections: those shorter than the limit are skipped.
RECURSIVE HtmlSectionConstructs(_, _)
HtmlSectionConstructs(sections, response) ==
    IF sections = << >> THEN << >>
    ELSE LET section == Head(sections) IN
         (IF Len(section.content) < MinSectionLength THEN << >>
          ELSE <<HtmlConstruct(section.content, "web_html_section", section.heading,
                               <<"HTML section: ">> \o section.heading,
                               <<"HTML section: ">> \o section.heading, response)>>)
         \o HtmlSectionConstructs(Tail(sections), response)

\* The loop over the code blocks, block i first: those shorter than the
\* limit are skipped.
RECURSIVE HtmlCodeBlockConstructs(_, _, _)
HtmlCodeBlockConstructs(code_blocks, i, response) ==
    IF i > Len(code_blocks) THEN << >>
    ELSE LET block == code_blocks[i] IN
         (IF Len(block.code) < MinCodeLength THEN << >>
          ELSE <<HtmlConstruct(block.code, "web_html_code_block",
                               <<"Code block (">> \o block.language \o <<") ", i>>,
                               <<"HTML code block in ">> \o block.language,
                               <<"Code block in ">> \o block.language, response)>>)
         \o HtmlCodeBlockConstructs(code_blocks, i + 1, response)

\* web_parser.parse_html_document: the document, its sections, its code
\* blocks.
parse_html_document(source, response) ==
    <<HtmlConstruct(source.main_content, "web_html_document", source.title,
                    <<"HTML document: ">> \o source.title,
                    <<"HTML document: ">> \o source.title, response)>>
    \o HtmlSectionConstructs(source.sections, response)
    \o HtmlCodeBlockConstructs(source.code_blocks, 1, response)

\* A call of parse_html_document.
ParseHtml ==
    /\ produced.op = "request" /\ produced.fn = "parse_html"
    /\ produced' = Parsed(parse_html_document(produced.source, produced.response))
    /\ UNCHANGED <<store, clock, call, found, gen, stats, run>>

\* ------------------------------------------------- WebProcessor on a document

\* The elements of the fetched page in document order: a pre with a code
\* child (its text and the classes of the code tag), a pre without one, a
\* heading, a paragraph.
WebElements ==
    [tag : {"pre_code"}, text : {<<"x">>},
     classes : {<< >>, <<(<<"language-", "python">>)>>, <<(<<"wide">>), <<"python">>>>}]
    \cup [tag : {"pre", "h1", "p"}, text : {<< >>, <<"a">>}, classes : {<< >>}]

\* The responses to fetch: the content type and the elements of the body.
WebDocuments ==
    [content_type : {"text/html", "application/json"},
     elements : SeqsUpTo(WebElements, MaxChildren)]

KnownLanguages ==
    {"python", "javascript", "java", "cpp", "c", "bash", "json", "html", "css"}

\* The loop of extract_code_blocks over the classes of a code tag: the
\* first class that starts with language- or names a known language.
RECURSIVE LanguageOf(_)
LanguageOf(classes) ==
    IF classes = << >> THEN <<"unknown">>
    ELSE IF Head(classes)[1] = "language-" THEN Tail(Head(classes))
    ELSE IF Len(Head(classes)) = 1 /\ Head(classes)[1] \in KnownLanguages THEN Head(classes)
    ELSE LanguageOf(Tail(classes))

\* WebProcessor.extract_code_blocks: every pre that has a code child.
extract_code_blocks(elements) ==
    LET IsCode(e) == e.tag = "pre_code"
        found_blocks == SelectSeq(elements, IsCode)
    IN [i \in 1..Len(found_blocks) |->
          [code |-> found_blocks[i].text, language |-> LanguageOf(found_blocks[i].classes)]]

\* soup.find_all(['h1', 'h2', 'h3', 'p']) with a non-empty text; the text
\* of a code tag inside a pre is in no such tag.
TextSections(elements) ==
    LET IsText(e) == e.tag \in {"h1", "h2", "h3", "p"} /\ e.text # << >>
    IN SelectSeq(elements, IsText)

\* One construct of WebProcessor.process with its vector.
WebConstruct(code, construct_type, name, description, response) ==
    Pair(MakeConstruct("http://x", "web", "", code, construct_type, name, description, 0, 0, << >>),
         generate(code, description, response).outcome.value)

\* WebProcessor.process on what fetch_content returned: the code blocks,
\* then the text sections; nothing for another content type.
web_process(document, response) ==
    IF document.content_type # "text/html" THEN << >>
    ELSE LET blocks == extract_code_blocks(document.elements)
             sections == TextSections(document.elements)
         IN [i \in 1..Len(blocks) |->
               WebConstruct(blocks[i].code, "code_block",
                            <<"Code Block (">> \o blocks[i].language \o <<")">>,
                            <<"Code block in ">> \o blocks[i].language \o <<" from http://x">>,
                            response)]
            \o [i \in 1..Len(sections) |->
                  WebConstruct(sections[i].text, "text", <<sections[i].tag>>,
                               <<sections[i].tag, " section from http://x">>, response)]

\* A call of WebProcessor.process whose fetch succeeded.
WebProcessDocument ==
    /\ produced.op = "request" /\ produced.fn = "web_process"
    /\ produced' = Parsed(web_process(produced.source, produced.response))
    /\ UNCHANGED <<store, clock, call, found, gen, stats, run>>

\* -------------------------------------------- LocalFileProcessor, whole files

\* The files process_code_file reads: empty, one line with and without its
\* line feed, two lines; and the Python files, of which it reads the text.
WholeFiles ==
    { [code_bytes |-> t] :
        t \in {<< >>, <<"a">>, <<"a", "\n">>, <<"a", "\n", "b">>, <<"\n">>} }

\* LocalFileProcessor.process_code_file on a file it can read.
ProcessWholeFile ==
    /\ produced.op = "request" /\ produced.fn = "process_code_file"
    /\ produced' = Parsed(<<LocalCodePair([code |-> produced.source.code_bytes,
                                           counter |-> "words",
                                           response |-> produced.response])>>)
    /\ UNCHANGED <<store, clock, call, found, gen, stats, run>>

\* ------------------------------------- a run over the files, one that fails

\* The tracked files of the run.
FilePaths == {"a.py", "b.py", "r.md"}

\* path.endswith(('.md', '.mdx', '.markdown'))
MarkdownPaths == {"r.md"}

\* What is found in each file: one unit in the code files, two fenced blocks
\* in the markdown file.
UnitOf(code) ==
    [code |-> code, counter |-> "words",
     response |-> [kind |-> "result", embeddings |-> <<Entry(VecA)>>]]

FileUnits(path) ==
    IF path = "a.py" THEN <<UnitOf(<<"a">>)>>
    ELSE IF path = "b.py" THEN <<UnitOf(<<"b">>)>>
    ELSE <<UnitOf(<<"c">>), UnitOf(<<"d">>)>>

\* The import statements of each file.
FileImports(path) == IF path \in MarkdownPaths THEN << >> ELSE <<"os">>

\* A file either reads and parses, or raises in open()/read(), or raises
\* while it is parsed, after its first unit.
Faults == {"none", "read", "parse"}

Files == [path : FilePaths, fault : Faults]

\* The constructs of a file carry its name.
InFile(path, pair) == [pair EXCEPT !.construct.filename = path]

\* The local lists of a try block at the moment an exception leaves it.
RaisedAfter(constructs, imports) ==
    [exception |-> TRUE, returned |-> FALSE, value |-> <<constructs, imports>>]

\* The units a faulty file gets through before the exception.
UnitsBefore(file) ==
    IF file.fault = "read" THEN << >> ELSE SubSeq(FileUnits(file.path), 1, 1)

\* The try block of process_markdown.
ProcessMarkdownTry(file) ==
    LET blocks(units) == [i \in 1..Len(units) |-> InFile(file.path, LocalMarkdownPair(units[i]))]
    IN IF file.fault # "none" THEN RaisedAfter(blocks(UnitsBefore(file)), << >>)
       ELSE Returned(<<blocks(FileUnits(file.path)), << >>>>)

\* The try block of process_code_file: the exception comes before the
\* construct is made.
ProcessCodeFileTry(file) ==
    IF file.fault # "none" THEN RaisedAfter(<< >>, << >>)
    ELSE Returned(<<(<<InFile(file.path, LocalCodePair(FileUnits(file.path)[1]))>>), << >>>>)

\* The try block of parse_file.
ParseFileTry(file) ==
    LET units(us) ==
            [i \in 1..Len(us) |->
                InFile(file.path, IF file.path \in MarkdownPaths
                                  THEN MarkdownPair(us[i]) ELSE PythonPair(us[i]))]
    IN IF file.fault = "read" THEN RaisedAfter(<< >>, << >>)
       ELSE IF file.fault = "parse"
       THEN RaisedAfter(units(UnitsBefore(file)), FileImports(file.path))
       ELSE Returned(<<units(FileUnits(file.path)), FileImports(file.path)>>)

ExceptReturnsPartial(tried) == Return(tried.value)

\* except Exception: ... return [], []
ExceptReturnsEmpty(tried) ==
    IF tried.returned THEN Return(tried.value) ELSE Return(<<(<< >>), << >>>>)

\* parser.parse_file
parse_file(file) == ExceptReturnsEmpty(ParseFileTry(file))

\* LocalFileProcessor.process_file
process_file(file) ==
    IF file.path \in MarkdownPaths THEN ExceptReturnsEmpty(ProcessMarkdownTry(file))
    ELSE ExceptReturnsEmpty(ProcessCodeFileTry(file))

\* The file lists a run can go through: tracked paths, each once.
FileLists ==
    { files \in SeqsUpTo(Files, MaxPlan) :
        \A i, j \in 1..Len(files) : i # j => files[i].path # files[j].path }

\* The runs that can be started: process() of a LocalFileProcessor, or the
\* calls of parse_file for the files one after the other.
FileRuns ==
    [phase : {"looping"}, fn : {"process", "parse_file"}, files : FileLists,
     pos : {1}, constructs : {<< >>}, imports : {<< >>}, processed : {{}},
     results : {<< >>}, calls : {<< >>}]

\* One iteration of the for loop of LocalFileProcessor.process.
ProcessNextFile ==
    /\ run.phase = "looping" /\ run.fn = "process"
    /\ run.pos <= Len(run.files)
    /\ LET file == run.files[run.pos]
           outcome == process_file(file)
       IN run' = IF file.path \in run.processed
                 THEN [run EXCEPT !.pos = @ + 1]
                 ELSE IF outcome.exception
                 THEN [run EXCEPT !.pos = @ + 1]
                 ELSE [run EXCEPT !.pos = @ + 1,
                                  !.constructs = @ \o outcome.value[1],
                                  !.imports = @ \o outcome.value[2],
                                  !.processed = @ \cup {file.path}]
    /\ UNCHANGED <<store, clock, call, found, gen, stats, produced>>

\* process() returns its two lists after the last file.
ProcessReturns ==
    /\ run.phase = "looping" /\ run.fn = "process"
    /\ run.pos > Len(run.files)
    /\ run' = [run EXCEPT !.phase = "returned",
                          !.calls = Append(@, [files |-> run.files,
                                               constructs |-> run.constructs])]
    /\ UNCHANGED <<store, clock, call, found, gen, stats, produced>>

\* The number of calls of process() on one LocalFileProcessor.
MaxCalls == 2

\* process() is called again on the same instance: git lists the same
\* paths, _processed_files is what the earlier calls left, and the files
\* that failed either fail again or have been repaired.
ProcessAgain ==
    /\ run.phase = "returned" /\ run.fn = "process"
    /\ Len(run.calls) < MaxCalls
    /\ \E repaired \in BOOLEAN :
          run' = [run EXCEPT
                    !.phase = "looping", !.pos = 1,
                    !.constructs = << >>, !.imports = << >>,
                    !.files = [i \in 1..Len(run.files) |->
                                 IF repaired THEN [run.files[i] EXCEPT !.fault = "none"]
                                 ELSE run.files[i]]]
    /\ UNCHANGED <<store, clock, call, found, gen, stats, produced>>

\* parse_file is called for the next file; an exception that left it would
\* end the caller's loop.
ParseNextFile ==
    /\ run.phase = "looping" /\ run.fn = "parse_file"
    /\ run.pos <= Len(run.files)
    /\ LET outcome == parse_file(run.files[run.pos])
       IN run' = IF outcome.exception
                 THEN [run EXCEPT !.phase = "aborted"]
                 ELSE [run EXCEPT !.pos = @ + 1,
                                  !.results = Append(@, outcome.value),
                                  !.constructs = @ \o outcome.value[1],
                                  !.imports = @ \o outcome.value[2],
                                  !.phase = IF run.pos = Len(run.files)
                                            THEN "returned" ELSE @]
    /\ UNCHANGED <<store, clock, call, found, gen, stats, produced>>

\* The constructs of the files, each handed to process_file in turn.
RECURSIVE ConstructsOfProcessFile(_)
ConstructsOfProcessFile(files) ==
    IF files = << >> THEN << >>
    ELSE process_file(Head(files)).value[1] \o ConstructsOfProcessFile(Tail(files))

\* The constructs of the files, each handed to parse_file in turn.
RECURSIVE ConstructsOfParseFile(_)
ConstructsOfParseFile(files) ==
    IF files = << >> THEN << >>
    ELSE parse_file(Head(files)).value[1] \o ConstructsOfParseFile(Tail(files))

\* ------------------------------------------- enumeration at the entry points

\* The root handed to an entry point: a directory that is or is not a git
\* repository, with the files git tracks in it; or a URL that can or cannot
\* be fetched, with the units of its document.
EnumerateRequests ==
    [phase : {"start"}, fn : {"main", "process_repo", "LocalFileProcessor_process"},
     is_repository : BOOLEAN, files : FileLists]
    \cup [phase : {"start"}, fn : {"WebProcessor_process"},
          fetchable : BOOLEAN, units : SeqsUpTo(Units, MaxUnits)]

\* The entry point ends with an error reported to its caller.
Fatal(error) ==
    [phase |-> "fatal", fn |-> run.fn, root |-> run, error |-> error,
     enumerated |-> << >>, constructs |-> << >>]

\* The entry point ends normally.
Completed(enumerated, constructs) ==
    [phase |-> "returned", fn |-> run.fn, root |-> run, error |-> "",
     enumerated |-> enumerated, constructs |-> constructs]

\* git ls-files in the root: exit status 128 outside a repository, which
\* subprocess.run(check=True) raises as CalledProcessError.
GitLsFiles(root) ==
    IF root.is_repository THEN Returned(root.files) ELSE Raised

\* LocalFileProcessor.get_tracked_files
get_tracked_files(root) ==
    LET tried == GitLsFiles(root)
    IN IF tried.returned THEN Return(tried.value) ELSE Return(<< >>)

\* main.main: Repo(repo_path), get_git_tracked_files, parse_file and
\* store_constructs for each file.
Main ==
    /\ run.phase = "start" /\ run.fn = "main"
    /\ run' = IF ~run.is_repository THEN Fatal("return 1")
              ELSE Completed(run.files, ConstructsOfParseFile(run.files))
    /\ UNCHANGED <<store, clock, call, found, gen, stats, produced>>

\* RepoCLI.process_repo: Repo(repo_path) raises for a directory that is not
\* a repository; create_processor hands include_patterns and
\* exclude_patterns to the registered LocalFileProcessor, whose __init__
\* takes neither.
ProcessRepo ==
    /\ run.phase = "start" /\ run.fn = "process_repo"
    /\ run' = IF ~run.is_repository THEN Fatal("UsageError") ELSE Fatal("Abort")
    /\ UNCHANGED <<store, clock, call, found, gen, stats, produced>>

\* LocalFileProcessor(repo_path).process(): the loop over
\* get_tracked_files().
LocalProcess ==
    /\ run.phase = "start" /\ run.fn = "LocalFileProcessor_process"
    /\ LET files == get_tracked_files(run).value
       IN run' = Completed(files, ConstructsOfProcessFile(files))
    /\ UNCHANGED <<store, clock, call, found, gen, stats, produced>>

\* WebProcessor.process: fetch_content is awaited outside the try block.
WebProcess ==
    /\ run.phase = "start" /\ run.fn = "WebProcessor_process"
    /\ run' = IF ~run.fetchable THEN Fatal("ClientError")
              ELSE Completed(<<"http://x">>,
                             [i \in 1..Len(run.units) |-> WebPair(run.units[i])])
    /\ UNCHANGED <<store, clock, call, found, gen, stats, produced>>

\* --------------------------------------------- include and exclude patterns

\* fnmatch.fnmatch on POSIX: * matches any run of characters, the slash
\* included, ? matches one character, anything else matches itself. The
\* patterns of the model have no [seq].
RECURSIVE fnmatch(_, _)
fnmatch(name, pat) ==
    IF pat = << >> THEN name = << >>
    ELSE IF Head(pat) = "*"
    THEN fnmatch(name, Tail(pat)) \/ (name # << >> /\ fnmatch(Tail(name), pat))
    ELSE IF name = << >> THEN FALSE
    ELSE IF Head(pat) = "?" THEN fnmatch(Tail(name), Tail(pat))
    ELSE Head(pat) = Head(name) /\ fnmatch(Tail(name), Tail(pat))

\* self.repo_path
repo_path == <<"/", "r">>

\* What git ls-files prints, in its order.
LsFiles ==
    << <<"a", ".", "m", "d">>, <<"a", ".", "p", "y">>,
       <<"t", "/", "a", ".", "p", "y">>, <<"t", "/", "b", ".", "m", "d">> >>

\* os.path.join(self.repo_path, f)
PathJoin(dir, f) == dir \o <<"/">> \o f

\* local_old get_tracked_files in a repository.
TrackedFiles == [i \in 1..Len(LsFiles) |-> PathJoin(repo_path, LsFiles[i])]

\* os.path.relpath(file_path, start) for a file below start.
RelPath(file_path, start) == SubSeq(file_path, Len(start) + 2, Len(file_path))

GlobPatterns ==
    { <<"*", ".", "p", "y">>, <<"t", "/", "*">>, <<"a", ".", "?", "?">>, <<"*">> }

\* The include_patterns and exclude_patterns a processor is made with; the
\* empty list stands for None as well.
PatternLists == SeqsUpTo(GlobPatterns, MaxItems)

FilterRequests ==
    [op : {"request"}, include_patterns : PatternLists, exclude_patterns : PatternLists]

\* The for loop over a pattern list: whether some pattern matches.
RECURSIVE AnyMatch(_, _)
AnyMatch(rel_path, patterns) ==
    IF patterns = << >> THEN FALSE
    ELSE IF fnmatch(rel_path, Head(patterns)) THEN TRUE
    ELSE AnyMatch(rel_path, Tail(patterns))

should_process_file_include_first(self, file_path) ==
    LET rel_path == RelPath(file_path, repo_path) IN
    IF AnyMatch(rel_path, self.include_patterns) THEN TRUE
    ELSE FALSE

\* local_old LocalFileProcessor.should_process_file
should_process_file(self, file_path) ==
    LET rel_path == RelPath(file_path, repo_path) IN
    IF AnyMatch(rel_path, self.exclude_patterns) THEN FALSE
    ELSE IF AnyMatch(rel_path, self.include_patterns) THEN TRUE
    ELSE FALSE

\* local_old LocalFileProcessor.list_processable_files from file i on.
RECURSIVE list_processable_files(_, _)
list_processable_files(self, i) ==
    IF i > Len(TrackedFiles) THEN << >>
    ELSE (IF should_process_file(self, TrackedFiles[i])
          THEN << <<TrackedFiles[i], RelPath(TrackedFiles[i], repo_path)>> >>
          ELSE << >>)
         \o list_processable_files(self, i + 1)

\* local_old LocalFileProcessor.__init__: a list that is None or empty is
\* replaced by config.DEFAULT_INCLUDE_PATTERNS or
\* config.DEFAULT_EXCLUDE_PATTERNS, names config.py does not define.
NewLocalFileProcessor ==
    /\ call.op = "request"
    /\ call' = IF call.include_patterns = << >> \/ call.exclude_patterns = << >>
               THEN [op |-> "AttributeError"]
               ELSE [op |-> "constructed",
                     include_patterns |-> call.include_patterns,
                     exclude_patterns |-> call.exclude_patterns]
    /\ UNCHANGED <<store, clock, found, gen, stats, produced, run>>

\* A call of should_process_file for one of the tracked files.
ShouldProcessFile ==
    /\ call.op = "constructed"
    /\ \E i \in 1..Len(TrackedFiles) :
          call' = [op |-> "should_process_file",
                   include_patterns |-> call.include_patterns,
                   exclude_patterns |-> call.exclude_patterns,
                   file_path |-> TrackedFiles[i],
                   result |-> should_process_file(call, TrackedFiles[i])]
    /\ UNCHANGED <<store, clock, found, gen, stats, produced, run>>

\* A call of list_processable_files.
ListProcessableFiles ==
    /\ call.op = "constructed"
    /\ call' = [op |-> "list_processable_files",
                include_patterns |-> call.include_patterns,
                exclude_patterns |-> call.exclude_patterns,
                result |-> list_processable_files(call, 1)]
    /\ UNCHANGED <<store, clock, found, gen, stats, produced, run>>

\* ------------------------------------------- the stages of one file in main

\* The constructs found in the file, by its extension: blocks of a .tf
\* file, definitions of a .py file, headings of a .md file.
StageUnits == [code : {<<"a">>, <<"b">>}, name : {<<"n">>}]

StageRuns ==
    [phase : {"parsing"}, fn : {"tf", "py", "md"},
     units : SeqsUpTo(StageUnits, MaxUnits),
     answer : ParseAnswers, response : ParseResponses,
     pos : {1}, stage : {"extract"}, description : {<< >>},
     log : {<< >>}, pairs : {<< >>}, stored : {<< >>}]

StageType(fn) ==
    IF fn = "tf" THEN "terraform_resource"
    ELSE IF fn = "py" THEN "function_definition"
    ELSE MARKDOWN_TYPES["atx_heading"]

\* The description made for the construct: generate_description in the .tf
\* branch, get_code_description in the .py branch, the local description of
\* extract_markdown_constructs for a heading.
StageDescribe(fn, unit, answer) ==
    IF fn = "tf" THEN generate_description(unit.code, StageType(fn), unit.name, answer).value
    ELSE IF fn = "py" THEN get_code_description(unit.code, answer).value
    ELSE MarkdownDescription("atx_heading", StageType(fn), unit.name)

\* The description the construct carries when it is appended: the .tf
\* branch assigns it, the .py branch passes it to the constructor,
\* extract_markdown_constructs leaves description='' and parse_file fills
\* in git_commit and repository only.
StageStoredDescription(fn, description) ==
    IF fn = "md" THEN << >> ELSE description

\* extract_terraform_constructs returns the constructs of the whole file
\* before the loop of parse_file; the visits of the .py and .md branches
\* come to one node at a time.
StageExtract ==
    /\ run.phase = "parsing" /\ run.stage = "extract"
    /\ run.pos <= Len(run.units)
    /\ run' = [run EXCEPT
                 !.stage = "describe",
                 !.log = IF run.fn = "tf"
                         THEN (IF run.pos = 1
                               THEN [i \in 1..Len(run.units) |-> [stage |-> "extract", unit |-> i]]
                               ELSE @)
                         ELSE Append(@, [stage |-> "extract", unit |-> run.pos])]
    /\ UNCHANGED <<store, clock, call, found, gen, stats, produced>>

\* The description of the construct is made.
StageDescription ==
    /\ run.phase = "parsing" /\ run.stage = "describe"
    /\ LET description == StageDescribe(run.fn, run.units[run.pos], run.answer)
       IN run' = [run EXCEPT
                    !.stage = "embed",
                    !.description = description,
                    !.log = Append(@, [stage |-> "describe", unit |-> run.pos,
                                       description |-> description])]
    /\ UNCHANGED <<store, clock, call, found, gen, stats, produced>>

\* get_embedding(code, description) and the append to
\* constructs_with_embeddings.
StageEmbed ==
    /\ run.phase = "parsing" /\ run.stage = "embed"
    /\ LET unit == run.units[run.pos]
           embedding == get_embedding(unit.code, run.description, "words",
                                      run.response).outcome.value
           construct == MakeConstruct("f", "repo", "c0ffee", unit.code, StageType(run.fn), unit.name, StageStoredDescription(run.fn, run.description), 1, 1, IF run.fn = "py" THEN embedding ELSE << >>)
       IN run' = [run EXCEPT
                    !.stage = "extract",
                    !.pos = @ + 1,
                    !.pairs = Append(@, Pair(construct, embedding)),
                    !.log = Append(@, [stage |-> "embed", unit |-> run.pos,
                                       code |-> unit.code,
                                       description |-> run.description])]
    /\ UNCHANGED <<store, clock, call, found, gen, stats, produced>>

\* parse_file has returned and main hands its list to db.store_constructs.
StageStore ==
    /\ run.phase = "parsing" /\ run.stage = "extract"
    /\ run.pos > Len(run.units)
    /\ run' = [run EXCEPT
                 !.phase = "stored",
                 !.stored = run.pairs,
                 !.log = @ \o [i \in 1..Len(run.pairs) |->
                                 [stage |-> "store", unit |-> i,
                                  description |-> run.pairs[i].construct.description]]]
    /\ UNCHANGED <<store, clock, call, found, gen, stats, produced>>

\* ------------------------------------------- two concurrent store_constructs

\* Two callers of store_constructs, each with its own session and its own
\* transaction at the backend's default isolation level, READ COMMITTED.
Sessions == {"A", "B"}

Other(s) == IF s = "A" THEN "B" ELSE "A"

\* The batches: f and g of a.py in their two versions.
ConcurrentBatches ==
    { <<Pair(CodeConstruct(f_fn, 1, VecA), VecA)>>,
      <<Pair(CodeConstruct(f_fn, 2, VecB), VecB)>>,
      <<Pair(CodeConstruct(f_fn, 2, VecB), VecB), Pair(CodeConstruct(g_fn, 2, VecB), VecB)>>,
      <<Pair(CodeConstruct(g_fn, 1, VecA), VecA), Pair(CodeConstruct(f_fn, 1, VecA), VecA)>> }

\* The table before the two calls: empty, or holding the first version of
\* f, or of f and g, committed at time 0.
InitialTables ==
    { {},
      {CreateNew(CodeConstruct(f_fn, 1, VecA), VecA, 0)},
      {CreateNew(CodeConstruct(f_fn, 1, VecA), VecA, 0),
       CreateNew(CodeConstruct(g_fn, 1, VecA), VecA, 0)} }

NoWrite == [kind |-> "none"]

\* A session: its batch and the position of the loop in it, the instances
\* of its identity map, the one write not yet flushed, and the rows it has
\* inserted and the columns it has updated in its open transaction.
NewSession(batch) ==
    [batch |-> batch, pos |-> 1, status |-> "open", txn_now |-> NULL,
     instances |-> {}, pending |-> NoWrite, ins |-> {}, upd |-> {}]

ConcurrentRuns ==
    { [phase |-> "concurrent", initial |-> t, order |-> << >>,
       A |-> NewSession(a), B |-> NewSession(b)] :
        t \in InitialTables, a \in ConcurrentBatches, b \in ConcurrentBatches }

\* The columns of the UPDATE the unit of work emits for an instance: those
\* whose value differs from the loaded one; the vector is a new list and
\* is always written.
ChangedColumns(loaded, instance) ==
    { k \in DOMAIN instance : instance[k] # loaded[k] } \cup {"embedding"}

\* UPDATE code_embeddings SET cols = values WHERE id = ...
ApplyUpdate(row, u) ==
    [k \in DOMAIN row |-> IF k \in u.cols THEN u.values[k] ELSE row[k]]

\* The write waits for a lock of the other transaction: an INSERT for the
\* primary key the other has inserted, an UPDATE for a row the other has
\* updated.
WouldBlock(s) ==
    LET w == run[s].pending
        o == run[Other(s)]
    IN /\ run[s].status = "open"
       /\ o.status = "open"
       /\ \/ /\ w.kind = "insert"
             /\ ~\E r \in store : r.id = w.id
             /\ \E r \in o.ins : r.id = w.id
          \/ /\ w.kind = "update"
             /\ ~\E r \in run[s].ins : r.id = w.id
             /\ \E u \in o.upd : u.id = w.id

\* The flush of the pending write: an INSERT for a primary key that is
\* committed raises IntegrityError; an UPDATE changes the session's own
\* uncommitted row or is added to its updates.
Flushed(sess) ==
    LET w == sess.pending IN
    IF w.kind = "none" THEN [error |-> FALSE, sess |-> sess]
    ELSE IF w.kind = "insert"
    THEN IF \E r \in store : r.id = w.id
         THEN [error |-> TRUE, sess |-> sess]
         ELSE [error |-> FALSE,
               sess |-> [sess EXCEPT !.ins = @ \cup {w.values}, !.pending = NoWrite]]
    ELSE IF \E r \in sess.ins : r.id = w.id
    THEN [error |-> FALSE,
          sess |-> [sess EXCEPT
                      !.ins = { IF r.id = w.id THEN ApplyUpdate(r, w) ELSE r : r \in @ },
                      !.pending = NoWrite]]
    ELSE LET earlier == { u \in sess.upd : u.id = w.id }
             merged == IF earlier = {} THEN [id |-> w.id, cols |-> w.cols, values |-> w.values]
                       ELSE [id |-> w.id,
                             cols |-> w.cols \cup (CHOOSE u \in earlier : TRUE).cols,
                             values |-> w.values]
         IN [error |-> FALSE,
             sess |-> [sess EXCEPT !.upd = (@ \ earlier) \cup {merged},
                                   !.pending = NoWrite]]

\* except Exception: session.rollback(); raise
RolledBack(sess) ==
    [sess EXCEPT !.status = "raised", !.ins = {}, !.upd = {}, !.pending = NoWrite,
                 !.instances = {}]

\* The row the session's query finds for the id: the instance of its
\* identity map, or the committed row.
SessionQueryFirst(sess, id) ==
    IF \E r \in sess.instances : r.id = id
    THEN { CHOOSE r \in sess.instances : r.id = id }
    ELSE query_first(store, id)

\* One store_embedding call of a session: the query flushes the pending
\* write first, then the row found is changed or a new one is added.
SessionStoreEmbedding(s) ==
    /\ run.phase = "concurrent"
    /\ run[s].status = "open"
    /\ run[s].pos <= Len(run[s].batch)
    /\ ~WouldBlock(s)
    /\ LET f == Flushed(run[s])
           sess == f.sess
           item == sess.batch[sess.pos]
           id == construct_id(item.construct)
           txn_now == IF sess.txn_now = NULL THEN clock ELSE sess.txn_now
           first == SessionQueryFirst(sess, id)
       IN /\ run' = IF f.error THEN [run EXCEPT ![s] = RolledBack(sess)]
                    ELSE IF first # {}
                    THEN LET instance == CHOOSE r \in first : TRUE
                             row == UpdateExisting(instance, item.construct,
                                                   item.embedding, clock + 1)
                         IN [run EXCEPT ![s] =
                               [sess EXCEPT
                                  !.pos = @ + 1, !.txn_now = txn_now,
                                  !.instances = (@ \ {instance}) \cup {row},
                                  !.pending = [kind |-> "update", id |-> id, values |-> row,
                                               cols |-> ChangedColumns(instance, row)]]]
                    ELSE LET row == CreateNew(item.construct, item.embedding, txn_now)
                         IN [run EXCEPT ![s] =
                               [sess EXCEPT
                                  !.pos = @ + 1, !.txn_now = txn_now,
                                  !.instances = @ \cup {row},
                                  !.pending = [kind |-> "insert", id |-> id, values |-> row,
                                               cols |-> DOMAIN row]]]
          /\ clock' = clock + 1
    /\ UNCHANGED <<store, call, found, gen, stats, produced>>

\* The rows of the table after the transaction's inserts and updates.
Committed(table, sess) ==
    { IF \E u \in sess.upd : u.id = r.id
      THEN ApplyUpdate(r, CHOOSE u \in sess.upd : u.id = r.id) ELSE r : r \in table }
    \cup sess.ins

\* session.commit(): the pending write is flushed and the transaction
\* becomes visible.
SessionCommit(s) ==
    /\ run.phase = "concurrent"
    /\ run[s].status = "open"
    /\ run[s].pos > Len(run[s].batch)
    /\ ~WouldBlock(s)
    /\ LET f == Flushed(run[s]) IN
          IF f.error
          THEN /\ run' = [run EXCEPT ![s] = RolledBack(f.sess)]
               /\ store' = store
          ELSE /\ run' = [run EXCEPT ![s] = [f.sess EXCEPT !.status = "committed"],
                                     !.order = Append(@, s)]
               /\ store' = Committed(store, f.sess)
    /\ UNCHANGED <<clock, call, found, gen, stats, produced>>

\* Each transaction waits for a lock of the other: the backend ends one of
\* them with a deadlock error, which store_constructs rolls back and raises.
DeadlockDetected ==
    /\ run.phase = "concurrent"
    /\ WouldBlock("A") /\ WouldBlock("B")
    /\ \E s \in Sessions : run' = [run EXCEPT ![s] = RolledBack(run[s])]
    /\ UNCHANGED <<store, clock, call, found, gen, stats, produced>>

\* ------------------------------------- get_embedding, the loop step by step

\* The code texts of the loop: up to MaxLoopText characters of words and
\* blanks.
MaxLoopText == 5

LoopTexts == SeqsUpTo({"a", " "}, MaxLoopText)

\* What count_tokens answers in one call, whatever the text: it raises, its
\* total_tokens is None, or it is a count up to one over the limit.
CountResponses ==
    { [kind |-> "raise", total_tokens |-> 0], [kind |-> "none", total_tokens |-> 0] }
    \cup { [kind |-> "count", total_tokens |-> n] : n \in 0..(EMBEDDING_TOKEN_LIMIT + 1) }

LoopRequests ==
    [op : {"request"}, fn : {"get_embedding"}, text : LoopTexts, response : ParseResponses]

\* The state of a call of get_embedding between two API calls.
InLoop(phase, text, before, token_count, rounds, exception, result) ==
    [op |-> "truncation_loop", phase |-> phase, original |-> gen.original,
     response |-> gen.response, text |-> text, before |-> before,
     token_count |-> token_count, rounds |-> rounds,
     exception |-> exception, result |-> result]

\* except Exception as e: print(...); return default_embedding
LoopRaised ==
    InLoop("returned", gen.text, gen.before, gen.token_count, gen.rounds, TRUE,
           default_embedding)

\* token_count = count_tokens(...).total_tokens; token_count = token_count or 0;
\* if token_count > config.EMBEDDING_TOKEN_LIMIT: the loop is entered.
CountTokensFirst ==
    /\ gen.op = "request" /\ gen.fn = "get_embedding"
    /\ \E r \in CountResponses :
          gen' = IF r.kind = "raise"
                 THEN [op |-> "truncation_loop", phase |-> "returned",
                       original |-> gen.text, response |-> gen.response,
                       text |-> gen.text, before |-> gen.text, token_count |-> 0,
                       rounds |-> 0, exception |-> TRUE, result |-> default_embedding]
                 ELSE [op |-> "truncation_loop",
                       phase |-> IF r.total_tokens > EMBEDDING_TOKEN_LIMIT
                                 THEN "while" ELSE "embed",
                       original |-> gen.text, response |-> gen.response,
                       text |-> gen.text, before |-> gen.text,
                       token_count |-> r.total_tokens, rounds |-> 0,
                       exception |-> FALSE, result |-> << >>]
    /\ UNCHANGED <<store, clock, call, found, stats, produced, run>>

\* while token_count > limit and len(text) > floor
WhileCondition ==
    gen.token_count > EMBEDDING_TOKEN_LIMIT /\ Len(gen.text) > TruncationFloor

\* One round of the loop: text = text[:int(len(text) * 0.9)], and the
\* combined text is counted again.
TruncateRound ==
    /\ gen.op = "truncation_loop" /\ gen.phase = "while"
    /\ WhileCondition
    /\ \E r \in CountResponses :
          LET text == SubSeq(gen.text, 1, (Len(gen.text) * 9) \div 10) IN
          gen' = IF r.kind = "raise"
                 THEN InLoop("returned", text, gen.text, gen.token_count,
                             gen.rounds + 1, TRUE, default_embedding)
                 ELSE InLoop("while", text, gen.text, r.total_tokens,
                             gen.rounds + 1, FALSE, << >>)
    /\ UNCHANGED <<store, clock, call, found, stats, produced, run>>

\* The condition of the while is false: the warning is printed.
LoopExit ==
    /\ gen.op = "truncation_loop" /\ gen.phase = "while"
    /\ ~WhileCondition
    /\ gen' = InLoop("embed", gen.text, gen.before, gen.token_count, gen.rounds,
                     FALSE, << >>)
    /\ UNCHANGED <<store, clock, call, found, stats, produced, run>>

\* embed_content on the combined text, and the checks of its result.
EmbedContent ==
    /\ gen.op = "truncation_loop" /\ gen.phase = "embed"
    /\ LET outcome == ExceptReturnsDefault(GetEmbeddingTry(gen.response)) IN
        gen' = InLoop("returned", gen.text, gen.before, gen.token_count, gen.rounds,
                      GetEmbeddingTry(gen.response).exception, outcome.value)
    /\ UNCHANGED <<store, clock, call, found, stats, produced, run>>

\* -------------------------------------------------- _extract_html_sections

\* An element of the page: its tag name, its own text, its children.
Element(name, text, children) == [name |-> name, text |-> text, children |-> children]

\* The nodes a page is made of, by kind: headings of three ranks, a
\* paragraph, a heading without text, a div around a heading and a
\* paragraph, and a string between the elements, which has no tag name.
\* The text of a node tells its place in the page.
ElementKinds == {"h1", "h2", "h3", "p", "empty_h2", "div", "string"}

MaxSiblings == 3

Place(i) == <<"1", "2", "3", "4", "5", "6">>[i]

ElementAt(kind, i) ==
    IF kind = "div"
    THEN Element("div", << >>, <<Element("h2", <<"d", Place(i), "a">>, << >>),
                                Element("p", <<"d", Place(i), "b">>, << >>)>>)
    ELSE IF kind = "empty_h2" THEN Element("h2", << >>, << >>)
    ELSE IF kind = "string" THEN Element("", <<"s", Place(i)>>, << >>)
    ELSE Element(kind, <<"t", Place(i)>>, << >>)

\* The children of body of the pages.
Pages ==
    { [i \in 1..Len(kinds) |-> ElementAt(kinds[i], i)] :
        kinds \in SeqsUpTo(ElementKinds, MaxSiblings) }

SectionRequests == [op : {"request"}, fn : {"_extract_html_sections"}, body : Pages]

\* '\n'.join(texts)
RECURSIVE JoinLines(_)
JoinLines(texts) ==
    IF texts = << >> THEN << >>
    ELSE IF Len(texts) = 1 THEN texts[1]
    ELSE texts[1] \o <<"\n">> \o JoinLines(Tail(texts))

\* elem.get_text(separator='\n', strip=True): the texts of the element that
\* are not empty, joined.
get_text(elem) ==
    IF elem.children = << >> THEN elem.text
    ELSE JoinLines(SelectSeq([i \in 1..Len(elem.children) |-> elem.children[i].text],
                             LAMBDA t : t # << >>))

HeadingNames == {"h1", "h2", "h3", "h4"}

\* current.name <= heading.name, for two heading names.
NameLessOrEqual(a, b) ==
    LET digit(n) == CHOOSE d \in 1..4 : n = <<"h1", "h2", "h3", "h4">>[d]
    IN digit(a) <= digit(b)

\* The break of the while loop with every heading a boundary.
StopsSection_at_any_heading(current, heading) == current.name \in HeadingNames

\* The break of the while loop: the next heading of the same or a higher
\* level.
StopsSection(current, heading) ==
    current.name \in HeadingNames /\ NameLessOrEqual(current.name, heading.name)

\* The while loop over heading.next_sibling: the elements up to the break.
RECURSIVE ContentElements(_, _, _)
ContentElements(siblings, current, heading) ==
    IF current > Len(siblings) THEN << >>
    ELSE IF StopsSection(siblings[current], heading) THEN << >>
    ELSE <<siblings[current]>> \o ContentElements(siblings, current + 1, heading)

\* soup.find_all(['h1', 'h2', 'h3', 'h4']): the headings in document order,
\* each with its siblings and its place among them.
FindAllHeadings(body) ==
    LET RECURSIVE From(_)
        From(i) ==
            IF i > Len(body) THEN << >>
            ELSE (IF body[i].name \in HeadingNames
                  THEN <<[siblings |-> body, index |-> i]>>
                  ELSE LET inner == body[i].children IN
                       SelectSeq([j \in 1..Len(inner) |-> [siblings |-> inner, index |-> j]],
                                 LAMBDA h : inner[h.index].name \in HeadingNames))
                 \o From(i + 1)
    IN From(1)

\* web_parser._extract_html_sections
extract_html_sections(body) ==
    LET headings == FindAllHeadings(body)
        RECURSIVE Sections(_)
        Sections(i) ==
            IF i > Len(headings) THEN << >>
            ELSE LET heading == headings[i].siblings[headings[i].index]
                     heading_text == get_text(heading)
                     content_elements == ContentElements(headings[i].siblings,
                                                         headings[i].index + 1, heading)
                     content == JoinLines([k \in 1..Len(content_elements) |->
                                             get_text(content_elements[k])])
                 IN (IF heading_text = << >> THEN << >>
                     ELSE <<[heading |-> heading_text,
                             content |-> heading_text \o <<"\n", "\n">> \o content]>>)
                    \o Sections(i + 1)
    IN Sections(1)

\* A call of _extract_html_sections on a parsed page.
ExtractHtmlSections ==
    /\ call.op = "request" /\ call.fn = "_extract_html_sections"
    /\ call' = [op |-> "_extract_html_sections", body |-> call.body,
                sections |-> extract_html_sections(call.body)]
    /\ UNCHANGED <<store, clock, found, gen, stats, produced, run>>

\* ----------------------------------------------------------- specification

NoGen == [op |-> "none"]

NoStats == [total_tokens |-> 0, successful_embeddings |-> 0, failed_embeddings |-> 0]

NoRun == [phase |-> "none"]

\* The state after construction: an empty table, nothing called yet.
Init ==
    /\ store = {}
    /\ clock = 1
    /\ call = NoCall
    /\ found = NoSearch
    /\ gen = NoGen
    /\ stats = NoStats
    /\ produced = << >>
    /\ run = NoRun

Next == StoreConstructs

Spec == Init /\ [][Next]_vars

\* Searching: the table is the one a store_constructs call on the empty
\* table has committed, and one search of it has been requested.
InitSearch ==
    /\ \E batch \in SeqsUpTo(SearchPairs, MaxRows) :
          LET t == StoreConstructsSimple({}, batch, 1, 0) IN
          /\ store = t.table
          /\ clock = t.clock
          /\ call = [op |-> "store_constructs", batch |-> batch, failAt |-> 0,
                     before |-> {}, raised |-> t.raised]
    /\ found \in SearchRequests(store)
    /\ gen = NoGen
    /\ stats = NoStats
    /\ produced = << >>
    /\ run = NoRun

NextSearch == SearchSimilarCode

SpecSearch == InitSearch /\ [][NextSearch]_vars

\* Reconstruction: the table is the one a store_constructs call on the
\* empty table has committed, and a search of it for reconstruction has
\* been requested.
InitReconstruct ==
    /\ \E batch \in SeqsUpTo(SearchPairs, MaxRows) :
          LET t == StoreConstructsSimple({}, batch, 1, 0) IN
          /\ store = t.table
          /\ clock = t.clock
          /\ call = [op |-> "store_constructs", batch |-> batch, failAt |-> 0,
                     before |-> {}, raised |-> t.raised]
    /\ found \in ReconstructRequests(store)
    /\ gen = NoGen
    /\ stats = NoStats
    /\ produced = << >>
    /\ run = NoRun

NextReconstruct == Reconstruct

SpecReconstruct == InitReconstruct /\ [][NextReconstruct]_vars

\* Embedding: one call of an embedding function has been requested.
InitEmbed ==
    /\ store = {}
    /\ clock = 1
    /\ call = NoCall
    /\ found = NoSearch
    /\ gen \in EmbeddingRequests
    /\ stats = NoStats
    /\ produced = << >>
    /\ run = NoRun

NextEmbed ==
    \/ Generate
    \/ GetEmbedding
    \/ GenerateBatch

SpecEmbed == InitEmbed /\ [][NextEmbed]_vars

\* A run of main over the tracked files begins on an empty table.
InitRun ==
    /\ store = {}
    /\ clock = 1
    /\ call = NoCall
    /\ found = NoSearch
    /\ gen = NoGen
    /\ stats = NoStats
    /\ produced = << >>
    /\ run \in [phase : {"first"}, plan : Plans, pos : {1}, aborted_after : {NULL}]

NextRun ==
    \/ MainStoreConstructs
    \/ AbortAndRerun

SpecRun == InitRun /\ [][NextRun]_vars

\* Extraction: one call of an extractor has been requested.
InitExtract ==
    /\ store = {}
    /\ clock = 1
    /\ call = NoCall
    /\ found = NoSearch
    /\ gen = NoGen
    /\ stats = NoStats
    /\ produced \in ExtractRequests
    /\ run = NoRun

NextExtract ==
    \/ ParseFilePython
    \/ ParseFileTerraform
    \/ ParseFileMarkdown
    \/ ProcessMarkdown
    \/ ProcessCodeFile
    \/ WebProcessorProcess
    \/ ParseHtmlDocument

SpecExtract == InitExtract /\ [][NextExtract]_vars

\* Description: the description of one construct has been requested.
InitDescribe ==
    /\ store = {}
    /\ clock = 1
    /\ call = NoCall
    /\ found = NoSearch
    /\ gen \in DescriptionRequests
    /\ stats = NoStats
    /\ produced = << >>
    /\ run = NoRun

NextDescribe ==
    \/ GenerateDescription
    \/ GetCodeDescription

SpecDescribe == InitDescribe /\ [][NextDescribe]_vars

\* Parsing: the parse of one source has been requested.
InitParse ==
    /\ store = {}
    /\ clock = 1
    /\ call = NoCall
    /\ found = NoSearch
    /\ gen = NoGen
    /\ stats = NoStats
    /\ produced \in ParseRequests("parse_python", PythonSources)
                    \cup ParseRequests("parse_terraform", HclSources)
                    \cup ParseRequests("parse_terraform_json", JsonSources)
                    \cup ParseRequests("parse_markdown", MarkdownSources)
                    \cup ParseRequests("parse_html", HtmlSources)
                    \cup ParseRequests("process_code_file", WholeFiles \cup PythonSources)
                    \cup ParseRequests("web_process", WebDocuments)
    /\ run = NoRun

NextParse ==
    \/ ParsePython
    \/ ParseTerraform
    \/ ParseTerraformJson
    \/ ParseMarkdown
    \/ ParseHtml
    \/ ProcessWholeFile
    \/ WebProcessDocument

SpecParse == InitParse /\ [][NextParse]_vars

\* Truncation: the truncation of one text has been requested.
InitTruncate ==
    /\ store = {}
    /\ clock = 1
    /\ call = NoCall
    /\ found = NoSearch
    /\ gen \in TruncateRequests
    /\ stats = NoStats
    /\ produced = << >>
    /\ run = NoRun

NextTruncate == TruncateText

SpecTruncate == InitTruncate /\ [][NextTruncate]_vars

\* A run over the tracked files has been started.
InitFiles ==
    /\ store = {}
    /\ clock = 1
    /\ call = NoCall
    /\ found = NoSearch
    /\ gen = NoGen
    /\ stats = NoStats
    /\ produced = << >>
    /\ run \in FileRuns

NextFiles ==
    \/ ProcessNextFile
    \/ ProcessReturns
    \/ ParseNextFile

SpecFiles == InitFiles /\ [][NextFiles]_vars

\* Enumeration: an entry point has been called on a root.
InitEnumerate ==
    /\ store = {}
    /\ clock = 1
    /\ call = NoCall
    /\ found = NoSearch
    /\ gen = NoGen
    /\ stats = NoStats
    /\ produced = << >>
    /\ run \in EnumerateRequests

NextEnumerate ==
    \/ Main
    \/ ProcessRepo
    \/ LocalProcess
    \/ WebProcess

SpecEnumerate == InitEnumerate /\ [][NextEnumerate]_vars

\* Filtering: a processor with patterns has been asked for.
InitFilter ==
    /\ store = {}
    /\ clock = 1
    /\ call \in FilterRequests
    /\ found = NoSearch
    /\ gen = NoGen
    /\ stats = NoStats
    /\ produced = << >>
    /\ run = NoRun

NextFilter ==
    \/ NewLocalFileProcessor
    \/ ShouldProcessFile
    \/ ListProcessableFiles

SpecFilter == InitFilter /\ [][NextFilter]_vars

\* The stages: main has come to a file with the given constructs.
InitStages ==
    /\ store = {}
    /\ clock = 1
    /\ call = NoCall
    /\ found = NoSearch
    /\ gen = NoGen
    /\ stats = NoStats
    /\ produced = << >>
    /\ run \in StageRuns

NextStages ==
    \/ StageExtract
    \/ StageDescription
    \/ StageEmbed
    \/ StageStore

SpecStages == InitStages /\ [][NextStages]_vars

\* Concurrency: two store_constructs calls have begun on the same table.
InitConcurrent ==
    /\ run \in ConcurrentRuns
    /\ store = run.initial
    /\ clock = 1
    /\ call = NoCall
    /\ found = NoSearch
    /\ gen = NoGen
    /\ stats = NoStats
    /\ produced = << >>

NextConcurrent ==
    \/ \E s \in Sessions : SessionStoreEmbedding(s)
    \/ \E s \in Sessions : SessionCommit(s)
    \/ DeadlockDetected

SpecConcurrent == InitConcurrent /\ [][NextConcurrent]_vars

\* The loop of get_embedding: a call has been made; each API call returns,
\* so a call that can take a step takes it.
InitLoop ==
    /\ store = {}
    /\ clock = 1
    /\ call = NoCall
    /\ found = NoSearch
    /\ gen \in LoopRequests
    /\ stats = NoStats
    /\ produced = << >>
    /\ run = NoRun

NextLoop ==
    \/ CountTokensFirst
    \/ TruncateRound
    \/ LoopExit
    \/ EmbedContent

SpecLoop == InitLoop /\ [][NextLoop]_vars /\ WF_vars(NextLoop)

\* Sections: the sections of one page have been requested.
InitSections ==
    /\ store = {}
    /\ clock = 1
    /\ call \in SectionRequests
    /\ found = NoSearch
    /\ gen = NoGen
    /\ stats = NoStats
    /\ produced = << >>
    /\ run = NoRun

NextSections == ExtractHtmlSections

SpecSections == InitSections /\ [][NextSections]_vars

\* Calls: process() is called on one LocalFileProcessor, and again after it
\* has returned.
InitCalls ==
    /\ store = {}
    /\ clock = 1
    /\ call = NoCall
    /\ found = NoSearch
    /\ gen = NoGen
    /\ stats = NoStats
    /\ produced = << >>
    /\ run \in { r \in FileRuns : r.fn = "process" }

NextCalls ==
    \/ ProcessNextFile
    \/ ProcessReturns
    \/ ProcessAgain

SpecCalls == InitCalls /\ [][NextCalls]_vars

\* ------------------------------------------------- properties of the store

\* The identity keys of the pairs of a batch.
BatchIds(batch) == { construct_id(batch[i].construct) : i \in 1..Len(batch) }

\* The last pair of the batch with the given identity key.
LastPair(batch, id) ==
    LET last == CHOOSE i \in 1..Len(batch) :
                    /\ construct_id(batch[i].construct) = id
                    /\ \A j \in (i + 1)..Len(batch) :
                           construct_id(batch[j].construct) # id
    IN batch[last]

\* The row carries the fields of the construct and the vector of the pair.
RowMatches(row, pair) ==
    /\ row.filename = pair.construct.filename
    /\ row.repository = pair.construct.repository
    /\ row.git_commit = pair.construct.git_commit
    /\ row.code = pair.construct.code
    /\ row.construct_type = pair.construct.construct_type
    /\ row.name = pair.construct.name
    /\ row.description = pair.construct.description
    /\ row.embedding = pair.embedding
    /\ row.line_start = pair.construct.line_start
    /\ row.line_end = pair.construct.line_end

RowsWithId(rows, id) == { r \in rows : r.id = id }

\* Storing some item of the last batch raises: the backend fails in a call
\* or in the commit, or a vector has the wrong dimension.
SomeItemRaises ==
    \/ call.failAt # 0
    \/ \E i \in 1..Len(call.batch) :
          Len(call.batch[i].embedding) # EMBEDDING_DIMENSION

\* C2: store_constructs is all-or-nothing.  If storing any item of the batch
\* raises, the exception reaches the caller and the table is exactly what it
\* was before the call; if none raises, every item of the batch is in the
\* table after the call (for a key that occurs twice, with the fields of its
\* last occurrence).
C2_AllOrNothing ==
    call.op = "store_constructs" =>
        /\ SomeItemRaises => call.raised /\ store = call.before
        /\ ~SomeItemRaises =>
             /\ ~call.raised
             /\ \A id \in BatchIds(call.batch) :
                    /\ Cardinality(RowsWithId(store, id)) = 1
                    /\ \A r \in RowsWithId(store, id) :
                           RowMatches(r, LastPair(call.batch, id))

\* A batch of two items on a non-empty table failed in its second item,
\* after the first had been stored in the session.
C2_Witness ==
    /\ call.op = "store_constructs"
    /\ call.raised
    /\ Len(call.batch) = 2
    /\ call.failAt = 2
    /\ call.before # {}
    /\ construct_id(call.batch[1].construct) \notin { r.id : r \in call.before }

\* t1 > t2 between two timestamp values, as SQL and Python have it: never
\* true when one of them is NULL.
TsGT(t1, t2) == t1 # NULL /\ t2 # NULL /\ t1 > t2

\* C3: after two committed store_embedding calls with the same identity key
\* and different code there is exactly one row with that id, it has the
\* fields of the second call, and its updated_at is strictly greater than the
\* updated_at the row had after the first call.
C3_SecondCallStrictlyLater ==
    (call.op = "store_constructs" /\ ~call.raised /\ Len(call.batch) = 1) =>
        LET pair == call.batch[1]
            id == construct_id(pair.construct)
        IN \A first \in RowsWithId(call.before, id) :
               first.code # pair.construct.code =>
                   /\ Cardinality(RowsWithId(store, id)) = 1
                   /\ \A second \in RowsWithId(store, id) :
                          /\ RowMatches(second, pair)
                          /\ TsGT(second.updated_at, first.updated_at)

Without(rows, fields) ==
    { [k \in (DOMAIN r) \ fields |-> r[k]] : r \in rows }

\* What one uninterrupted run of the plan leaves, begun at time start.
Uninterrupted(start) == RunAll({}, run.plan, 1, start)

\* The ids of the batches committed before the first run was killed.
CommittedIds ==
    { construct_id(run.plan[i][j].construct) :
        <<i, j>> \in { <<i, j>> \in (1..Len(run.plan)) \X (1..(MaxBatch + 1)) :
                        i <= run.aborted_after /\ j <= Len(run.plan[i]) } }

Rerun == run.aborted_after # NULL

ProviderFailed(response) ==
    \/ response.kind # "result"
    \/ response.embeddings = << >>
    \/ response.embeddings[1].is_none
    \/ Len(response.embeddings[1].values) # EMBEDDING_DIMENSION

SingleCall == gen.op \in {"generate", "get_embedding"}

CallFailed ==
    \/ ProviderFailed(gen.response)
    \/ gen.op = "get_embedding" /\ gen.counter = "raise"

\* C1: every call of generate and of get_embedding, whatever the provider
\* does, returns a vector of exactly EMBEDDING_DIMENSION entries without an
\* exception reaching the caller, and in every failure case that vector is
\* the all-zero vector.
C1_AlwaysDimensionD ==
    SingleCall =>
        /\ ~gen.exception
        /\ Len(gen.result) = EMBEDDING_DIMENSION
        /\ CallFailed => gen.result = default_embedding

\* Scenario C has happened: the provider answered generate with a vector one
\* entry short and the caller got the all-zero vector.
C1_Witness ==
    /\ gen.op = "generate"
    /\ gen.response.kind = "result"
    /\ gen.response.embeddings # << >>
    /\ ~gen.response.embeddings[1].is_none
    /\ Len(gen.response.embeddings[1].values) = EMBEDDING_DIMENSION - 1
    /\ gen.result = default_embedding
    /\ stats.failed_embeddings = 1

\* Entry i of a batch response is a usable vector.
UsableEntry(response, i) ==
    /\ response.kind = "result"
    /\ i <= Len(response.embeddings)
    /\ ~response.embeddings[i].is_none
    /\ Len(response.embeddings[i].values) = EMBEDDING_DIMENSION

\* C9: generate_batch returns exactly one vector per item, each of length
\* EMBEDDING_DIMENSION, and the i-th is the provider's vector for the i-th item
\* or the all-zero vector.
C9_BatchOnePerItem ==
    gen.op = "generate_batch" =>
        /\ Len(gen.result) = Len(gen.items)
        /\ \A i \in 1..Len(gen.result) :
              /\ Len(gen.result[i]) = EMBEDDING_DIMENSION
              /\ \/ gen.result[i] = default_embedding
                 \/ /\ UsableEntry(gen.response, i)
                    /\ gen.result[i] = gen.response.embeddings[i].values

\* ------------------------------------------------ properties of the extractors

\* C10: every construct an extractor or processor returns has an embedding
\* field of exactly EMBEDDING_DIMENSION entries, and so has the vector paired
\* with it.
C10_EmbeddingFieldFilled ==
    produced.op \in Extractors =>
        \A i \in 1..Len(produced.pairs) :
            /\ Len(produced.pairs[i].construct.embedding) = EMBEDDING_DIMENSION
            /\ Len(produced.pairs[i].embedding) = EMBEDDING_DIMENSION

\* ---------------------------------------------- properties of descriptions

\* The model call for the description failed or returned no text.
NoAnswer(answer) == answer.kind # "response" \/ answer.text = << >>

\* C13: description generation never raises, and a construct whose model
\* call fails or returns no text, or whose type has no template, gets the
\* description "{construct_type} named {name}", with the terraform_ prefix
\* stripped from the type of an infra-config construct.
C13_FallbackDescription ==
    gen.op \in {"generate_description", "get_code_description"} =>
        /\ ~gen.exception
        /\ (NoAnswer(gen.answer)
              \/ (~IsTerraformType(gen.construct_type)
                    /\ gen.construct_type \notin DOMAIN description_templates))
           => gen.result = FallbackDescription(gen.construct_type, gen.name)

\* ------------------------------------------------ properties of the parsers

\* The nodes of a tree.
RECURSIVE AllNodes(_)
AllNodes(node) ==
    {node} \cup UNION { AllNodes(node.children[i]) : i \in 1..Len(node.children) }

\* The line of a byte offset: one more than the line feeds before it.
LineOf(code_bytes, offset) ==
    1 + Cardinality({ i \in 1..Len(code_bytes) : i <= offset /\ code_bytes[i] = "\n" })

\* The bytes of a node.
TextOf(node, code_bytes) ==
    [i \in 1..(node.end_byte - node.start_byte) |-> code_bytes[node.start_byte + i]]

\* The text of the first identifier child of a node, or "unnamed".
FirstIdentifier(node, code_bytes) ==
    LET ids == { i \in 1..Len(node.children) : node.children[i].type = "identifier" } IN
    IF ids = {} THEN Unnamed
    ELSE TextOf(node.children[CHOOSE i \in ids : \A j \in ids : i <= j], code_bytes)

DefinitionNodes(root) ==
    { n \in AllNodes(root) : n.type \in {"function_definition", "class_definition"} }

\* A pair of the list describes the definition node.
EmittedFor(pair, node, code_bytes) ==
    /\ pair.construct.construct_type = node.type
    /\ pair.construct.name = FirstIdentifier(node, code_bytes)
    /\ pair.construct.code = TextOf(node, code_bytes)
    /\ pair.construct.line_start = LineOf(code_bytes, node.start_byte)
    /\ pair.construct.line_end = LineOf(code_bytes, node.end_byte)

\* C14: every function or class definition node of a parsed Python file gives
\* one construct whose type is the node type, whose name is the text of the
\* first identifier child or "unnamed", whose code is the bytes of the node
\* and whose lines are the rows of the node plus one; no other node gives
\* a construct.
C14_DefinitionConstructs ==
    produced.op = "parse_python" =>
        LET nodes == DefinitionNodes(produced.source.root)
            code_bytes == produced.source.code_bytes
        IN /\ Len(produced.pairs) = Cardinality(nodes)
           /\ \A n \in nodes : \E i \in 1..Len(produced.pairs) :
                 EmittedFor(produced.pairs[i], n, code_bytes)
           /\ \A i \in 1..Len(produced.pairs) : \E n \in nodes :
                 EmittedFor(produced.pairs[i], n, code_bytes)

\* Scenario A has happened: def foo on lines 3 and 4 has been parsed into
\* one construct function_definition / foo / 3 / 4.
C14_Witness ==
    /\ produced.op = "parse_python"
    /\ produced.source.code_bytes = PythonText
    /\ produced.source.root.children
          = <<Node("function_definition", 2, 21,
                   <<Node("block", 2, 6, << >>), Node("identifier", 6, 9, << >>)>>)>>
    /\ Len(produced.pairs) = 1
    /\ produced.pairs[1].construct.construct_type = "function_definition"
    /\ produced.pairs[1].construct.name = <<"f", "o", "o">>
    /\ produced.pairs[1].construct.line_start = 3
    /\ produced.pairs[1].construct.line_end = 4

\* C15: a file of resource and data blocks with two labels gives exactly one
\* construct for each block, in order, of the type of the block, whose name
\* contains both labels of the block.
C15_BothLabelsInName ==
    (/\ produced.op = "parse_terraform"
     /\ \A i \in 1..Len(produced.source.blocks) :
           /\ produced.source.blocks[i].type \in {<<"r", "e", "s", "o", "u", "r", "c", "e">>, <<"d", "a", "t", "a">>}
           /\ Len(produced.source.blocks[i].labels) = 2)
    => /\ Len(produced.pairs) = Len(produced.source.blocks)
       /\ \A i \in 1..Len(produced.pairs) :
             LET block == produced.source.blocks[i]
                 construct == produced.pairs[i].construct
             IN /\ construct.construct_type = TERRAFORM_TYPES[block.type]
                /\ Contains(construct.name, block.labels[1])
                /\ Contains(construct.name, block.labels[2])

\* The nodes of a markdown tree whose type is a key of the table.
TableNodes(root) == { n \in AllNodes(root) : n.type \in DOMAIN MARKDOWN_TYPES }

\* C16: extract_markdown_constructs emits exactly one construct for every
\* node whose type is a key of the table, nested nodes included, with the
\* mapped type and the text of the node, and none for any other node; the
\* heading and the body of "# Title", blank line, "Body text." give a
\* markdown_heading named Title and a markdown_section with code Body text.
C16_OnePerTableNode ==
    produced.op = "parse_markdown" =>
        LET nodes == TableNodes(produced.source.root)
            code_bytes == produced.source.code_bytes
            Emitted(construct_type, code) ==
                \E i \in 1..Len(produced.pairs) :
                    /\ produced.pairs[i].construct.construct_type = construct_type
                    /\ produced.pairs[i].construct.code = code
        IN /\ Len(produced.pairs) = Cardinality(nodes)
           /\ \A n \in nodes : Emitted(MARKDOWN_TYPES[n.type], TextOf(n, code_bytes))
           /\ \A i \in 1..Len(produced.pairs) : \E n \in nodes :
                 /\ produced.pairs[i].construct.construct_type = MARKDOWN_TYPES[n.type]
                 /\ produced.pairs[i].construct.code = TextOf(n, code_bytes)
           /\ (/\ code_bytes = MarkdownText
               /\ Node("atx_heading", 0, 8, << >>) \in nodes
               /\ Node("paragraph", 9, 19, << >>) \in nodes)
              => /\ \E i \in 1..Len(produced.pairs) :
                       /\ produced.pairs[i].construct.construct_type = "markdown_heading"
                       /\ produced.pairs[i].construct.name = <<"T", "i", "t", "l", "e">>
                 /\ Emitted("markdown_section",
                            <<"B", "o", "d", "y", " ", "t", "e", "x", "t", ".">>)

\* Scenario E has happened: the tree of a heading and a paragraph inside a
\* paragraph-free section has been parsed into two constructs.
C16_Witness ==
    /\ produced.op = "parse_markdown"
    /\ produced.source.code_bytes = MarkdownText
    /\ produced.source.root.children
          = <<Node("section", 0, 19,
                   <<Node("atx_heading", 0, 8, << >>), Node("paragraph", 9, 19, << >>)>>)>>
    /\ Len(produced.pairs) = 2
    /\ produced.pairs[1].construct.name = <<"T", "i", "t", "l", "e">>
    /\ produced.pairs[2].construct.construct_type = "markdown_section"

\* A node of the table nested in another node of the table has been parsed:
\* both are emitted.
C16_NestedWitness ==
    /\ produced.op = "parse_markdown"
    /\ \E n \in TableNodes(produced.source.root) :
          \E i \in 1..Len(n.children) : n.children[i].type \in DOMAIN MARKDOWN_TYPES
    /\ Len(produced.pairs) >= 2

ParseFunctions ==
    {"parse_python", "parse_terraform", "parse_terraform_json", "parse_markdown",
     "parse_html", "process_code_file", "web_process"}

\* C11: every construct an extractor emits has line_start <= line_end,
\* whatever the input, the empty file included.
C11_LinesOrdered ==
    produced.op \in ParseFunctions =>
        \A i \in 1..Len(produced.pairs) :
            produced.pairs[i].construct.line_start <= produced.pairs[i].construct.line_end

\* ------------------------------------------------- properties of the file run

\* The files of the run that read and parse.
RECURSIVE Sound(_)
Sound(files) ==
    IF files = << >> THEN << >>
    ELSE (IF Head(files).fault = "none" THEN <<Head(files)>> ELSE << >>)
         \o Sound(Tail(files))

\* What the files hand over when each is processed on its own, in order.
ConstructsOf(fn, files) ==
    IF fn = "process" THEN ConstructsOfProcessFile(files)
    ELSE ConstructsOfParseFile(files)

\* C12: a read or parse exception in one file gives the empty construct and
\* import lists for that file and never ends the run: what the run has
\* collected after each file is what the files without the failing ones
\* give, in the same order.
C12_FailingFileIsSkipped ==
    /\ run.phase # "aborted"
    /\ run.phase \in {"looping", "returned"} =>
        /\ run.constructs = ConstructsOf(run.fn, Sound(SubSeq(run.files, 1, run.pos - 1)))
        /\ \A i \in 1..Len(run.results) :
              run.files[i].fault # "none" => run.results[i] = <<(<< >>), << >>>>
    /\ run.phase = "returned" => run.pos = Len(run.files) + 1

\* A finished run whose second file failed while it was parsed, between two
\* files that gave constructs.
C12_Witness ==
    /\ run.phase = "returned"
    /\ Len(run.files) = 3
    /\ run.files[1].fault = "none"
    /\ run.files[2].fault = "parse" /\ run.files[2].path = "r.md"
    /\ run.files[3].fault = "none"
    /\ Len(run.constructs) = 2
    /\ run.constructs[1].construct.filename = run.files[1].path
    /\ run.constructs[2].construct.filename = run.files[3].path

\* ------------------------------------------------ properties of the truncation

IsPrefix(part, text) ==
    Len(part) <= Len(text) /\ SubSeq(text, 1, Len(part)) = part

\* The first EMBEDDING_TOKEN_LIMIT * 3 characters of the text.
BudgetedPrefix(text) == SubSeq(text, 1, EMBEDDING_TOKEN_LIMIT * 3)

\* The returned text stops where a blank follows in the input.
CutAtBreakPoint(part, text) ==
    Len(part) < Len(text) /\ IsSpace(text[Len(part) + 1])

\* The returned text is a prefix of the input, so never longer.
TruncateReturnsPrefix ==
    gen.op = "_truncate_text" => IsPrefix(gen.truncated, gen.text)

\* C17: _truncate_text returns a prefix of the input, never longer than the
\* input, and when the text exceeds the character budget and the budgeted
\* prefix has a space or newline in it, the returned text ends at such a
\* break point, not inside a word.
C17_TruncateAtBreakPoint ==
    gen.op = "_truncate_text" =>
        /\ IsPrefix(gen.truncated, gen.text)
        /\ (Len(gen.text) > EMBEDDING_TOKEN_LIMIT * 3
            /\ \E i \in 1..Len(BudgetedPrefix(gen.text)) : IsSpace(gen.text[i]))
           => CutAtBreakPoint(gen.truncated, gen.text)

\* ---------------------------------------------- properties of the enumeration

\* The root is not a repository, or the URL cannot be fetched.
BadRoot(root) ==
    IF root.fn = "WebProcessor_process" THEN ~root.fetchable ELSE ~root.is_repository

\* C18: on a root that is not a version-controlled repository, or a URL
\* that cannot be fetched, the entry point ends in a fatal error before any
\* file is processed; it never returns normally with an empty list.
C18_BadRootIsFatal ==
    (run.phase \in {"fatal", "returned"} /\ BadRoot(run.root)) =>
        /\ run.phase = "fatal"
        /\ run.constructs = << >>

\* --------------------------------------------------- properties of the filter

\* Some pattern of the list matches the path.
MatchesAny(rel_path, patterns) ==
    \E k \in 1..Len(patterns) : fnmatch(rel_path, patterns[k])

\* The file is let through: no exclude pattern matches its relative path
\* and some include pattern does.
LetThrough(file_path) ==
    /\ ~MatchesAny(RelPath(file_path, repo_path), call.exclude_patterns)
    /\ MatchesAny(RelPath(file_path, repo_path), call.include_patterns)

\* C19: should_process_file returns False whenever the file's relative
\* path matches an exclude pattern, also when an include pattern matches,
\* and returns True only when no exclude pattern and some include pattern
\* matches; list_processable_files lists exactly the files let through, in
\* the order of the tracked files.
C19_ExcludeBeatsInclude ==
    /\ call.op = "should_process_file" =>
          (call.result <=> LetThrough(call.file_path))
    /\ call.op = "list_processable_files" =>
          /\ \A i \in 1..Len(TrackedFiles) :
                LetThrough(TrackedFiles[i]) <=>
                    \E k \in 1..Len(call.result) : call.result[k][1] = TrackedFiles[i]
          /\ \A k \in 1..Len(call.result) :
                call.result[k][2] = RelPath(call.result[k][1], repo_path)
          /\ \A k, l \in 1..Len(call.result) :
                k < l => \E i, j \in 1..Len(TrackedFiles) :
                            /\ i < j
                            /\ TrackedFiles[i] = call.result[k][1]
                            /\ TrackedFiles[j] = call.result[l][1]

\* t/a.py matches the include pattern *.py and the exclude pattern t/*, and
\* is rejected.
C19_Witness ==
    /\ call.op = "should_process_file"
    /\ call.file_path = <<"/", "r", "/", "t", "/", "a", ".", "p", "y">>
    /\ call.include_patterns = << <<"*", ".", "p", "y">> >>
    /\ call.exclude_patterns = << <<"t", "/", "*">> >>
    /\ call.result = FALSE

\* ------------------------------------------- properties of the reconstruction

\* The construct store_embedding was last called with under the id.
LastStored(id) ==
    LET batch == call.batch
        last == CHOOSE i \in 1..Len(batch) :
                    /\ construct_id(batch[i].construct) = id
                    /\ \A j \in (i + 1)..Len(batch) : construct_id(batch[j].construct) # id
    IN batch[last].construct

\* C20: a result of similar_code with for_reconstruction=True is accepted
\* by from_search_result and gives a construct with the filename,
\* repository, git_commit, code, construct_type, name, description,
\* line_start and line_end of the construct that was stored; a dictionary
\* in which one of these fields is missing makes from_search_result raise
\* ValueError.
C20_RoundTrip ==
    found.op = "from_search_result" =>
        \A i \in 1..Len(found.dicts) :
            /\ (found.flags.for_reconstruction /\ found.drop = "") =>
                  /\ ~found.outcomes[i].exception
                  /\ \A f \in required_fields :
                        found.outcomes[i].value[f] = LastStored(found.results[i].id)[f]
            /\ (required_fields \ DOMAIN found.dicts[i] # {}) =>
                  /\ found.outcomes[i].exception
                  /\ found.outcomes[i].error = "ValueError"

\* A row stored twice under one id is found and reconstructed as its second
\* version.
C20_Witness ==
    /\ found.op = "from_search_result"
    /\ found.flags.for_reconstruction /\ found.drop = ""
    /\ Len(call.batch) = 2
    /\ construct_id(call.batch[1].construct) = construct_id(call.batch[2].construct)
    /\ call.batch[1].construct # call.batch[2].construct
    /\ Len(found.outcomes) = 1
    /\ ~found.outcomes[1].exception
    /\ found.outcomes[1].value.code = call.batch[2].construct.code

\* A result of a search with for_reconstruction=True from which the caller
\* took line_end is refused.
C20_MissingFieldWitness ==
    /\ found.op = "from_search_result"
    /\ found.flags.for_reconstruction /\ found.drop = "line_end"
    /\ Len(found.outcomes) >= 1
    /\ found.outcomes[1].exception

\* C21: for an HTML document with at least one pre/code block,
\* WebProcessor.process returns a non-empty list whose first element is the
\* construct of the first code block, with the URL as filename, the type
\* "web_code_block" and a vector of floats.
C21_FirstIsWebCodeBlock ==
    (/\ produced.op = "web_process"
     /\ produced.source.content_type = "text/html"
     /\ \E i \in 1..Len(produced.source.elements) :
           produced.source.elements[i].tag = "pre_code")
    => /\ produced.pairs # << >>
       /\ produced.pairs[1].construct.filename = "http://x"
       /\ produced.pairs[1].construct.code
             = extract_code_blocks(produced.source.elements)[1].code
       /\ Len(produced.pairs[1].embedding) = EMBEDDING_DIMENSION
       /\ produced.pairs[1].construct.construct_type = "web_code_block"

\* ---------------------------------------------------- properties of the stages

\* The positions of the log with an event of the stage for the unit.
EventsOf(stage, unit) ==
    { k \in 1..Len(run.log) : run.log[k].stage = stage /\ run.log[k].unit = unit }

\* Every event of the later stage for a unit comes after an event of the
\* earlier stage for it.
StageBefore(earlier, later) ==
    \A k \in 1..Len(run.log) :
        run.log[k].stage = later =>
            \E j \in 1..(k - 1) :
                run.log[j].stage = earlier /\ run.log[j].unit = run.log[k].unit

\* The stages come in the order extract, describe, embed, store, and the
\* embedding request carries the code and the description of its construct.
StagesInOrder ==
    /\ StageBefore("extract", "describe")
    /\ StageBefore("describe", "embed")
    /\ StageBefore("embed", "store")
    /\ \A k \in 1..Len(run.log) :
          run.log[k].stage = "embed" =>
              /\ run.log[k].code = run.units[run.log[k].unit].code
              /\ \E j \in EventsOf("describe", run.log[k].unit) :
                    run.log[j].description = run.log[k].description

\* C22: every construct goes through extract, describe, embed, store in
\* this order; the embedding request uses the code and the description of
\* the same construct; and the description stored with the construct is the
\* one that was embedded.
C22_StoredDescriptionWasEmbedded ==
    /\ StagesInOrder
    /\ \A k \in 1..Len(run.log) :
          run.log[k].stage = "store" =>
              \E j \in EventsOf("embed", run.log[k].unit) :
                  run.log[j].description = run.log[k].description

\* ------------------------------------------- properties of concurrent batches

Finished(s) == run[s].status \in {"committed", "raised"}

\* No two rows of the table have the same id.
OneRowPerId == \A r1, r2 \in store : r1.id = r2.id => r1 = r2

\* Nothing of a batch is visible before its commit or after its rollback:
\* while no transaction has committed the table is the initial one, and a
\* committed batch has a row for each of its ids.
BatchesAtomic ==
    /\ run.order = << >> => store = run.initial
    /\ \A s \in Sessions :
          run[s].status = "committed" =>
              \A id \in BatchIds(run[s].batch) : \E r \in store : r.id = id

\* C23: under every interleaving of two store_constructs batches that
\* contain the same id, the table never holds two rows with that id, each
\* batch is atomic, and when both have finished the row of the shared id
\* carries the fields of the batch that committed last.
C23_LastWriteWins ==
    /\ OneRowPerId
    /\ BatchesAtomic
    /\ (Finished("A") /\ Finished("B") /\ run.order # << >>) =>
          LET last == run[run.order[Len(run.order)]].batch IN
          \A id \in BatchIds(run.A.batch) \cap BatchIds(run.B.batch) \cap BatchIds(last) :
              \E r \in store : r.id = id /\ RowMatches(r, LastPair(last, id))

\* ------------------------------------------- properties of the definitions

\* The number of function and class definition nodes of a tree, at any
\* depth.
RECURSIVE CountDefinitions(_)
CountDefinitions(node) ==
    LET RECURSIVE Below(_)
        Below(i) == IF i > Len(node.children) THEN 0
                    ELSE CountDefinitions(node.children[i]) + Below(i + 1)
    IN (IF node.type \in {"function_definition", "class_definition"} THEN 1 ELSE 0)
       + Below(1)

\* A definition of the tree has a definition among its descendants.
RECURSIVE HasNestedDefinition(_)
HasNestedDefinition(node) ==
    \/ /\ node.type \in {"function_definition", "class_definition"}
       /\ CountDefinitions(node) >= 2
    \/ \E i \in 1..Len(node.children) : HasNestedDefinition(node.children[i])

\* C24: the source-code extractor emits exactly one construct for each
\* function or class definition node of the tree of the file, at any
\* depth, a nested definition as well as the one that encloses it.
C24_OnePerDefinition ==
    (produced.op \in {"parse_python", "process_code_file"}
     /\ "root" \in DOMAIN produced.source) =>
        Len(produced.pairs) = CountDefinitions(produced.source.root)

\* The same for parse_file alone.
ParseFileOnePerDefinition ==
    produced.op = "parse_python" =>
        Len(produced.pairs) = CountDefinitions(produced.source.root)

ParseFileNested ==
    /\ produced.op = "parse_python"
    /\ HasNestedDefinition(produced.source.root)
    /\ Len(produced.pairs) >= 2

\* ------------------------------------------ properties of the truncation loop

\* The call of get_embedding returns.
LoopTerminates == <>(gen.op = "truncation_loop" /\ gen.phase = "returned")

\* Each round leaves int(0.9 * len) characters of the text, its first ones.
RoundKeepsNineTenths ==
    [][TruncateRound =>
          /\ Len(gen'.text) = (Len(gen.text) * 9) \div 10
          /\ IsPrefix(gen'.text, gen.text)]_vars

\* When the loop is left, the count is within the limit or the text is at
\* the floor.
ExitWithinBudgetOrAtFloor ==
    (gen.op = "truncation_loop" /\ gen.phase = "embed") =>
        \/ gen.token_count <= EMBEDDING_TOKEN_LIMIT
        \/ Len(gen.text) <= TruncationFloor

\* The cut is inside a word: a word character on both of its sides.
SplitsWord(part, text) ==
    /\ 1 <= Len(part) /\ Len(part) < Len(text)
    /\ ~IsSpace(text[Len(part)]) /\ ~IsSpace(text[Len(part) + 1])

\* No round cuts inside a word when a blank lies before the cut.
RoundsSnapToBlank ==
    (gen.op = "truncation_loop" /\ gen.rounds >= 1
     /\ \E i \in 2..Len(gen.text) : IsSpace(gen.before[i]))
        => ~SplitsWord(gen.text, gen.before)

\* C25: the truncation loop of get_embedding terminates for every text and
\* every token count, each round shortens the text to 90% of its length,
\* on exit the count is within the budget or the text is at the floor, and
\* each cut snaps back to a newline or space so that no word is split.
C25_TruncationLoop ==
    /\ LoopTerminates
    /\ RoundKeepsNineTenths
    /\ []ExitWithinBudgetOrAtFloor
    /\ []RoundsSnapToBlank

\* The same without the snapping.
LoopWithoutSnapping ==
    /\ LoopTerminates
    /\ RoundKeepsNineTenths
    /\ []ExitWithinBudgetOrAtFloor

\* A call whose loop ran twice has returned.
LoopRanTwice == gen.op = "truncation_loop" /\ gen.phase = "returned" /\ gen.rounds >= 2

\* ------------------------------------------------ properties of the sections

\* The headings of the page that have a text, in document order.
TextHeadings(body) ==
    SelectSeq(FindAllHeadings(body),
              LAMBDA h : get_text(h.siblings[h.index]) # << >>)

\* The rank of a heading element: 1 for h1, the highest.
Rank(elem) == CHOOSE d \in 1..4 : elem.name = <<"h1", "h2", "h3", "h4">>[d]

\* The place of the first sibling after the heading that is a heading of
\* equal or higher rank, or the place after the last sibling.
SectionEnd(h) ==
    LET ends == { j \in (h.index + 1)..Len(h.siblings) :
                    /\ h.siblings[j].name \in HeadingNames
                    /\ Rank(h.siblings[j]) <= Rank(h.siblings[h.index]) }
    IN IF ends = {} THEN Len(h.siblings) + 1
       ELSE CHOOSE j \in ends : \A k \in ends : j <= k

\* C26: the section of a heading h1..h4 is the heading text and the text of
\* every following sibling up to the first following sibling heading of
\* equal or higher rank; headings of lower rank in between are included.
C26_SectionUpToNextHeading ==
    call.op = "_extract_html_sections" =>
        LET headings == TextHeadings(call.body) IN
        /\ Len(call.sections) = Len(headings)
        /\ \A i \in 1..Len(headings) :
              LET h == headings[i]
                  texts == [k \in 1..(SectionEnd(h) - h.index - 1) |->
                              get_text(h.siblings[h.index + k])]
              IN /\ call.sections[i].heading = get_text(h.siblings[h.index])
                 /\ call.sections[i].content =
                        get_text(h.siblings[h.index]) \o <<"\n", "\n">> \o JoinLines(texts)

\* The section of an h1 followed by an h2 and then an h1 has been
\* extracted: it holds the h2 and stops before the second h1.
C26_Witness ==
    /\ call.op = "_extract_html_sections"
    /\ Len(call.body) = 3
    /\ call.body[1].name = "h1" /\ call.body[2].name = "h2" /\ call.body[3].name = "h1"
    /\ call.body[2].text # << >>
    /\ call.sections[1].content = <<"t", "1", "\n", "\n", "t", "2">>

\* --------------------------------------------- properties of the block kinds

\* The constructs emitted for the block on the given line of the file.
EmittedForLine(line) ==
    { k \in 1..Len(produced.pairs) : produced.pairs[k].construct.line_start = line }

\* A block of one of the three kinds gives one construct of the mapped
\* type, a block of another kind gives none.
KindDecides ==
    produced.op = "parse_terraform" =>
        \A i \in 1..Len(produced.source.blocks) :
            LET block == produced.source.blocks[i] IN
            IF block.type \in DOMAIN TERRAFORM_TYPES
            THEN /\ Cardinality(EmittedForLine(i)) = 1
                 /\ \A k \in EmittedForLine(i) :
                       produced.pairs[k].construct.construct_type
                           = TERRAFORM_TYPES[block.type]
            ELSE EmittedForLine(i) = {}

\* C27: a block of an infra-config file produces a construct if and only
\* if its first child token is module, resource or data, mapped to
\* terraform_module, terraform_resource and terraform_data; a block of
\* another kind, and a block without a kind or without a name, produces
\* none.
C27_WhitelistedNamedBlocks ==
    produced.op = "parse_terraform" =>
        \A i \in 1..Len(produced.source.blocks) :
            LET block == produced.source.blocks[i] IN
            IF block.type \in DOMAIN TERRAFORM_TYPES /\ block.labels # << >>
            THEN /\ Cardinality(EmittedForLine(i)) = 1
                 /\ \A k \in EmittedForLine(i) :
                       produced.pairs[k].construct.construct_type
                           = TERRAFORM_TYPES[block.type]
            ELSE EmittedForLine(i) = {}

\* ---------------------------------------- properties of the code block names

\* The info string of the fence that opens the block: what follows the
\* backquotes on the first line; empty when there is none or no fence.
InfoString(code) ==
    IF Len(code) >= 3 /\ SubSeq(code, 1, 3) = <<Backquote, Backquote, Backquote>>
    THEN Strip(SubSeq(FirstLine(code), 4, Len(FirstLine(code))))
    ELSE << >>

\* C28: the name of a markdown code block is the language tag of the info
\* string of its fence when there is one, and "code" otherwise: for a fence
\* with an empty info string and for an indented block.
C28_CodeBlockName ==
    produced.op = "parse_markdown" =>
        \A k \in 1..Len(produced.pairs) :
            LET construct == produced.pairs[k].construct IN
            construct.construct_type = "markdown_code_block" =>
                construct.name = IF InfoString(construct.code) # << >>
                                 THEN InfoString(construct.code)
                                 ELSE <<"c", "o", "d", "e">>

\* The same for the blocks that have an info string or no fence at all.
CodeBlockNameWithTagOrNoFence ==
    produced.op = "parse_markdown" =>
        \A k \in 1..Len(produced.pairs) :
            LET construct == produced.pairs[k].construct IN
            (construct.construct_type = "markdown_code_block"
             /\ construct.code # EmptyFenceText) =>
                construct.name = IF InfoString(construct.code) # << >>
                                 THEN InfoString(construct.code)
                                 ELSE <<"c", "o", "d", "e">>

TaggedAndIndentedBlocksParsed ==
    /\ produced.op = "parse_markdown"
    /\ \E k \in 1..Len(produced.pairs) :
          /\ produced.pairs[k].construct.construct_type = "markdown_code_block"
          /\ produced.pairs[k].construct.name \in {<<"p", "y">>, <<"c", "o", "d", "e">>}

\* ------------------------------------------- properties of the identity keys

\* The four parts of construct_id of store_embedding.
IdentityKey(construct) ==
    <<construct.repository, construct.filename, construct.name, construct.construct_type>>

\* C29: the constructs emitted by one extraction of one document have
\* pairwise distinct identity keys repository:filename:name:construct_type,
\* so that no construct of the extraction overwrites another one of it in
\* the store.
C29_DistinctIdentityKeys ==
    produced.op \in ParseFunctions =>
        \A i, j \in 1..Len(produced.pairs) :
            i # j => IdentityKey(produced.pairs[i].construct)
                         # IdentityKey(produced.pairs[j].construct)

\* --------------------------------------- properties of the processed files

\* The calls of process() that returned a construct of the file.
CallsReturning(path) ==
    { c \in 1..Len(run.calls) :
        \E k \in 1..Len(run.calls[c].constructs) :
            run.calls[c].constructs[k].construct.filename = path }

\* The constructs of a file are returned by at most one call.
ReturnedAtMostOnce == \A path \in FilePaths : Cardinality(CallsReturning(path)) <= 1

\* A path is added to _processed_files only by an iteration whose file was
\* read and parsed without error.
AddedOnlyWithoutError ==
    [][(ProcessNextFile /\ run'.processed # run.processed)
          => run.files[run.pos].fault = "none"]_vars

\* C30: over the process() calls of one LocalFileProcessor the constructs
\* of a tracked file are returned by at most one call, and a path enters
\* the processed-file set only when its processing completed without
\* error, so that a file whose read or parse failed is attempted again by
\* the next call.
C30_ProcessedOnlyOnSuccess ==
    /\ []ReturnedAtMostOnce
    /\ AddedOnlyWithoutError

\* ------------------------------------------------ properties of the search

Searched == found.op = "search_similar_code"

\* The similarity of a stored row to the query of the last search.
SimilarityOf(row) == cosine_similarity(row.embedding, found.query_embedding)

\* The rows of the table whose similarity is greater than min_similarity.
EligibleRows == { r \in store : SimGT(SimilarityOf(r), found.min_similarity) }

\* s1 and s2 are the same float.
SameFloat(s1, s2) == ~SimGT(s1, s2) /\ ~SimGT(s2, s1)

\* C4: no row returned by similar_code or by search_similar_code has a
\* similarity less than or equal to min_similarity; a table whose rows all
\* have similarity 0.5 to the query, searched with min_similarity 0.9, gives
\* the empty list.
C4_AboveThreshold ==
    Searched =>
        /\ \A i \in 1..Len(found.ranked) :
               ~FloatLE(found.ranked[i].similarity, found.min_similarity)
        /\ \A i \in 1..Len(found.rows) :
               ~FloatLE(found.rows[i].similarity, found.min_similarity)
        /\ ( /\ found.min_similarity = Fraction(9, 10)
             /\ \A r \in store : SameFloat(SimilarityOf(r), Fraction(1, 2)) )
               => found.rows = << >> /\ found.ranked = << >>

\* A search returned a row although another row of the table has exactly
\* the similarity min_similarity.
C4_Witness ==
    /\ Searched
    /\ found.rows # << >>
    /\ \E r \in store : SameFloat(SimilarityOf(r), found.min_similarity)

\* C5: without a construct_type filter the result is the eligible rows
\* sorted by similarity descending and cut to `limit`: it has
\* min(limit, number of eligible rows) entries, each a different eligible row
\* with its similarity, no entry has a greater similarity than the entry
\* before it, and no eligible row left out has a greater similarity than a
\* returned one.
C5_RankedAndCut ==
    (Searched /\ found.construct_type = "") =>
        LET rows == found.rows IN
        /\ Len(rows) = Min(found.limit, Cardinality(EligibleRows))
        /\ \A i \in 1..Len(rows) :
               \E r \in EligibleRows :
                   /\ r.id = rows[i].id
                   /\ rows[i].similarity = SimilarityOf(r)
        /\ \A i, j \in 1..Len(rows) : i # j => rows[i].id # rows[j].id
        /\ \A i \in 1..(Len(rows) - 1) :
               ~SimGT(rows[i + 1].similarity, rows[i].similarity)
        /\ \A r \in EligibleRows :
               (\A i \in 1..Len(rows) : rows[i].id # r.id) =>
                   \A i \in 1..Len(rows) :
                       ~SimGT(SimilarityOf(r), rows[i].similarity)

\* An unfiltered search with more eligible rows than `limit`, of different
\* similarities.
C5_Witness ==
    /\ Searched
    /\ found.construct_type = ""
    /\ Cardinality(EligibleRows) > found.limit
    /\ \E r1, r2 \in EligibleRows : SimGT(SimilarityOf(r1), SimilarityOf(r2))

\* The entries of a result list that have the given type, in their order.
OfType(results, construct_type) ==
    LET HasType(r) == r.type = construct_type IN SelectSeq(results, HasType)

\* C6: with a construct_type filter the result is exactly the rows of that
\* type among the unfiltered top-`limit` ranking (what similar_code returned,
\* min(limit, number of eligible rows) entries), in the same order; an
\* eligible row of the type that the ranking cut off is not returned.
C6_FilterAfterLimit ==
    (Searched /\ found.construct_type # "") =>
        /\ Len(found.ranked) = Min(found.limit, Cardinality(EligibleRows))
        /\ found.rows = OfType(found.ranked, found.construct_type)
        /\ \A r \in EligibleRows :
               (\A i \in 1..Len(found.ranked) : found.ranked[i].id # r.id) =>
                   \A i \in 1..Len(found.rows) : found.rows[i].id # r.id

\* A filtered search returned fewer than `limit` rows although an eligible
\* row of the requested type is stored below the cutoff.
C6_Witness ==
    /\ Searched
    /\ found.construct_type # ""
    /\ Len(found.rows) < found.limit
    /\ \E r \in EligibleRows :
          /\ r.construct_type = found.construct_type
          /\ \A i \in 1..Len(found.ranked) : found.ranked[i].id # r.id

====
